---- MODULE Spec2Model ----
(***************************************************************************)
(* DocMindAI: the hybrid retrieval and ranking engine of                   *)
(* backend/advanced_rag.py (HybridSearch, ReRanker, ConversationMemory,    *)
(* AdvancedRAGEngine) and the ingestion path of backend/rag_engine.py      *)
(* (RAGEngine), as a state machine.                                        *)
(*                                                                         *)
(* Strings are sequences of one-character strings, so that concatenation,  *)
(* strip(), lower() and the \w+ tokenizer are computed, not assumed.       *)
(* Python's None is the value None below.  Floats are exact rationals      *)
(* <<numerator, denominator>> in lowest terms with a positive denominator. *)
(*                                                                         *)
(* The asyncio event loop runs one coroutine step at a time: every action  *)
(* named as a coroutine step is the code between two awaits.  Calls handed *)
(* to asyncio.to_thread finish in a worker thread, in a step of their own. *)
(***************************************************************************)
EXTENDS Integers, Sequences, FiniteSets, TLC

\* ------------------------------------------------------------------------
\* Strings
\* ------------------------------------------------------------------------

\* Python's None (a value no string equals).
None == <<"<None>">>

\* The characters str.strip() removes.
Whitespace == {" ", "\n", "\t"}

\* The letters and digits of ASCII, the alphabet of the strings used here.
UpperLetters ==
    <<"A", "B", "C", "D", "E", "F", "G", "H", "I", "J", "K", "L", "M",
      "N", "O", "P", "Q", "R", "S", "T", "U", "V", "W", "X", "Y", "Z">>
LowerLetters ==
    <<"a", "b", "c", "d", "e", "f", "g", "h", "i", "j", "k", "l", "m",
      "n", "o", "p", "q", "r", "s", "t", "u", "v", "w", "x", "y", "z">>

\* The characters the regular expression class \w matches.
WordChars ==
    {UpperLetters[p] : p \in DOMAIN UpperLetters}
        \cup {LowerLetters[p] : p \in DOMAIN LowerLetters}
        \cup {"0", "1", "2", "3", "4", "5", "6", "7", "8", "9", "_"}

\* str.lower() on one character.
LowerChar(c) ==
    IF \E p \in DOMAIN UpperLetters : UpperLetters[p] = c
    THEN LowerLetters[CHOOSE p \in DOMAIN UpperLetters : UpperLetters[p] = c]
    ELSE c

\* str.lower()
Lower(s) == [p \in DOMAIN s |-> LowerChar(s[p])]

\* str.strip(): drop leading and trailing whitespace.
RECURSIVE LStrip(_)
LStrip(s) == IF s # <<>> /\ Head(s) \in Whitespace THEN LStrip(Tail(s)) ELSE s

RECURSIVE RStrip(_)
RStrip(s) ==
    IF s # <<>> /\ s[Len(s)] \in Whitespace
    THEN RStrip(SubSeq(s, 1, Len(s) - 1))
    ELSE s

Strip(s) == RStrip(LStrip(s))

\* Truthiness of an optional string: None and "" are falsy.
Truthy(s) == s # None /\ s # <<>>

\* re.findall(r'\b\w+\b', text): the maximal runs of word characters, in
\* order.  cur is the run being read.
RECURSIVE FindWords(_, _)
FindWords(s, cur) ==
    IF s = <<>>
    THEN IF cur = <<>> THEN <<>> ELSE <<cur>>
    ELSE IF Head(s) \in WordChars
         THEN FindWords(Tail(s), Append(cur, Head(s)))
         ELSE IF cur = <<>>
              THEN FindWords(Tail(s), <<>>)
              ELSE <<cur>> \o FindWords(Tail(s), <<>>)

\* HybridSearch._tokenize
_tokenize(text) == FindWords(Lower(text), <<>>)

\* list.count(x)
Count(seq, x) == Cardinality({p \in DOMAIN seq : seq[p] = x})

\* set(list)
Range(seq) == {seq[p] : p \in DOMAIN seq}

\* list[:n]
Take(seq, n) == SubSeq(seq, 1, IF n < Len(seq) THEN n ELSE Len(seq))

\* list[-n:]
LastN(seq, n) == SubSeq(seq, IF Len(seq) > n THEN Len(seq) - n + 1 ELSE 1, Len(seq))

\* ------------------------------------------------------------------------
\* Exact arithmetic for the float scores
\* ------------------------------------------------------------------------

RECURSIVE Gcd(_, _)
Gcd(a, b) == IF b = 0 THEN a ELSE Gcd(b, a % b)

Abs(n) == IF n < 0 THEN -n ELSE n

\* n/d in lowest terms, d > 0.
Rat(n, d) ==
    LET g == Gcd(Abs(n), Abs(d))
        s == IF d < 0 THEN -1 ELSE 1
    IN  <<(s * n) \div g, (s * d) \div g>>

RZero == <<0, 1>>
ROne == <<1, 1>>

RAdd(x, y) ==
    LET g == Gcd(x[2], y[2])
    IN  Rat(x[1] * (y[2] \div g) + y[1] * (x[2] \div g), (x[2] \div g) * y[2])

\* Cross-cancelled product, to keep the intermediate integers small.
RMul(x, y) ==
    LET l == Rat(x[1], y[2])
        r == Rat(y[1], x[2])
    IN  <<l[1] * r[1], l[2] * r[2]>>

\* x / y for y > 0.
RDiv(x, y) == RMul(x, <<y[2], y[1]>>)

RSub(x, y) == RAdd(x, <<-y[1], y[2]>>)

RLess(x, y) == RSub(x, y)[1] < 0

RLeq(x, y) == RSub(x, y)[1] <= 0

\* max(list, default=d)
RECURSIVE RMax(_, _)
RMax(seq, d) ==
    IF seq = <<>> THEN d
    ELSE IF Len(seq) = 1 THEN seq[1]
    ELSE LET m == RMax(Tail(seq), d)
         IN  IF RLess(seq[1], m) THEN m ELSE seq[1]

\* A float that could not be computed: the marker of a ZeroDivisionError.
RRaise == <<0, 0>>

Raised(x) == x[2] = 0

\* ------------------------------------------------------------------------
\* Python dicts whose iteration order matters: sequences of records with a
\* key field, in insertion order; assigning to a present key keeps its place.
\* ------------------------------------------------------------------------

DictKeys(d) == {d[p].key : p \in DOMAIN d}

DictGet(d, k) == d[CHOOSE p \in DOMAIN d : d[p].key = k]

DictSet(d, k, e) ==
    IF k \in DictKeys(d)
    THEN [p \in DOMAIN d |-> IF d[p].key = k THEN e ELSE d[p]]
    ELSE Append(d, e)

\* An insertion that puts an item before the items of equal score: a sort
\* that reverses ties.
InsertBeforeEqual(sorted, e) ==
    LET n == Cardinality({p \in DOMAIN sorted : RLess(e.score, sorted[p].score)})
    IN  SubSeq(sorted, 1, n) \o <<e>> \o SubSeq(sorted, n + 1, Len(sorted))

\* sorted(items, key=score, reverse=True): a stable descending sort.
InsertDesc(sorted, e) ==
    LET n == Cardinality({p \in DOMAIN sorted : ~RLess(sorted[p].score, e.score)})
    IN  SubSeq(sorted, 1, n) \o <<e>> \o SubSeq(sorted, n + 1, Len(sorted))

RECURSIVE SortDesc(_)
SortDesc(items) ==
    IF items = <<>> THEN <<>>
    ELSE InsertDesc(SortDesc(SubSeq(items, 1, Len(items) - 1)), items[Len(items)])

\* ------------------------------------------------------------------------
\* HybridSearch: the sparse (BM25) index
\* ------------------------------------------------------------------------

\* BM25 parameters of _bm25_score.
k1 == <<3, 2>>
b == <<3, 4>>

\* HybridSearch.__init__ before its call of _build_bm25_index: no entries,
\* no document frequencies, total_docs = 0.  bm25_index is a dict keyed by
\* doc_id; doc_frequencies is a defaultdict(int), here a function on the
\* terms it holds.
EmptyIndex == [bm25_index |-> <<>>, doc_frequencies |-> <<>>, total_docs |-> 0]

\* doc_frequencies.get(term, 0)
DfGet(df, term) == IF term \in DOMAIN df THEN df[term] ELSE 0

\* The loop of _build_bm25_index over enumerate(documents): for every
\* non-empty text, each of its unique terms has its frequency incremented
\* and bm25_index[doc_id] is assigned (a present key keeps its place in the
\* dict, a new key is added at the end).  Nothing is cleared first.
IndexDocuments(hs, documents) ==
    LET indexed == {p \in DOMAIN documents : Truthy(documents[p])}
        terms == [p \in indexed |-> _tokenize(documents[p])]
        entry(p) == [key |-> p - 1, text |-> documents[p], terms |-> terms[p],
                     length |-> Len(terms[p])]
        df == hs.doc_frequencies
        old == hs.bm25_index
        old_keys == DictKeys(old)
        IsNew(p) == p \in indexed /\ p - 1 \notin old_keys
        new_keys == SelectSeq([p \in DOMAIN documents |-> p], IsNew)
    IN  [hs EXCEPT
          !.doc_frequencies =
              [t \in DOMAIN df \cup UNION {Range(terms[p]) : p \in indexed} |->
                  DfGet(df, t) + Cardinality({p \in indexed : t \in Range(terms[p])})],
          !.bm25_index =
              [q \in DOMAIN old |->
                  IF old[q].key + 1 \in indexed THEN entry(old[q].key + 1) ELSE old[q]]
              \o [j \in DOMAIN new_keys |-> entry(new_keys[j])]]

\* HybridSearch._build_bm25_index; got is the outcome of collection.get:
\* the documents it returns, or an exception, which is caught and logged,
\* the index left as it was.
_build_bm25_index(hs, got) ==
    IF got.exc \/ got.value = <<>> THEN hs
    ELSE IndexDocuments([hs EXCEPT !.total_docs = Len(got.value)], got.value)

\* sum(doc["length"] for doc in self.bm25_index.values()), over the
\* entries lo..hi.
RECURSIVE SumLengths(_, _, _)
SumLengths(index, lo, hi) ==
    IF lo > hi THEN 0
    ELSE IF lo = hi THEN index[lo].length
    ELSE LET mid == (lo + hi) \div 2
         IN  SumLengths(index, lo, mid) + SumLengths(index, mid + 1, hi)

\* One query term's addend in _bm25_score.
TermScore(hs, term, doc_terms, doc_length) ==
    LET avg_doc_length ==
            Rat(SumLengths(hs.bm25_index, 1, Len(hs.bm25_index)),
                IF hs.total_docs > 1 THEN hs.total_docs ELSE 1)
        tf == Count(doc_terms, term)
        df == DfGet(hs.doc_frequencies, term)
        ratio == Rat(2 * hs.total_docs - 2 * df + 1, 2 * df + 1)
        idf == IF ratio[1] < 0 THEN RZero ELSE ratio
        numerator == RMul(<<tf, 1>>, RAdd(k1, ROne))
        denominator ==
            RAdd(<<tf, 1>>,
                 RMul(k1, RAdd(RSub(ROne, b),
                               RMul(b, RDiv(<<doc_length, 1>>, avg_doc_length)))))
    IN  IF term \notin Range(doc_terms) \/ df = 0 THEN RZero
        ELSE IF avg_doc_length[1] = 0 THEN RRaise
        ELSE RMul(idf, RDiv(numerator, denominator))

\* score += ...: a division by zero propagates.
AddScore(score, addend) ==
    IF Raised(score) \/ Raised(addend) THEN RRaise ELSE RAdd(score, addend)

\* HybridSearch._bm25_score: the sum over the query terms, in order.
RECURSIVE _bm25_score(_, _, _, _)
_bm25_score(hs, query_terms, doc_terms, doc_length) ==
    IF query_terms = <<>> THEN RZero
    ELSE AddScore(_bm25_score(hs, SubSeq(query_terms, 1, Len(query_terms) - 1),
                              doc_terms, doc_length),
                  TermScore(hs, query_terms[Len(query_terms)], doc_terms, doc_length))

\* ------------------------------------------------------------------------
\* HybridSearch.search
\* ------------------------------------------------------------------------

\* The outcome of a call: a returned value, or an exception raised.
Return(v) == [exc |-> FALSE, value |-> v]
Raise == [exc |-> TRUE, value |-> <<>>]

\* dense_docs = {doc.page_content: (doc, score) for doc, score in
\* dense_results}: one entry per content, at the place of its first
\* occurrence, holding the score of its last.
RECURSIVE DenseDocs(_)
DenseDocs(dense_results) ==
    IF dense_results = <<>> THEN <<>>
    ELSE LET last == dense_results[Len(dense_results)]
         IN  DictSet(DenseDocs(SubSeq(dense_results, 1, Len(dense_results) - 1)),
                     last.content,
                     [key |-> last.content, score |-> last.score])

\* "if score > 0: bm25_scores.append((doc_id, score, text))".  A score of
\* RRaise is kept: it stands for the exception leaving the loop.
AppendScore(bm25_scores, doc_data, score) ==
    IF Raised(score) \/ RLess(RZero, score)
    THEN Append(bm25_scores, [doc_id |-> doc_data.key, score |-> score,
                              text |-> doc_data.text])
    ELSE bm25_scores

\* The loop over bm25_index.items(), in the dict's order, over its first n
\* entries.
RECURSIVE Bm25Scores(_, _, _)
Bm25Scores(hs, query_terms, n) ==
    IF n = 0 THEN <<>>
    ELSE AppendScore(Bm25Scores(hs, query_terms, n - 1), hs.bm25_index[n],
                     _bm25_score(hs, query_terms, hs.bm25_index[n].terms,
                                 hs.bm25_index[n].length))

Scores(items) == [p \in DOMAIN items |-> items[p].score]

\* A score used as it is, not divided by the maximum.
RawScore(score, max_score) == score

\* norm_score = score / max_score if max_score > 0 else 0
NormScore(score, max_score) ==
    IF RLess(RZero, max_score) THEN RDiv(score, max_score) ELSE RZero

\* "Add dense results": combined_scores[content] = alpha * norm_score.
AddDense(dense_docs, max_dense, alpha) ==
    [p \in DOMAIN dense_docs |->
        [key |-> dense_docs[p].key,
         score |-> RMul(alpha, NormScore(dense_docs[p].score, max_dense))]]

\* One round of the loop "Add BM25 results": an entry whose text is already
\* a key has part = (1 - alpha) * norm_score added to its score.
AddBm25Entry(combined_scores, text, part) ==
    IF text \in DictKeys(combined_scores)
    THEN DictSet(combined_scores, text,
                 [key |-> text,
                  score |-> RAdd(DictGet(combined_scores, text).score, part)])
    ELSE DictSet(combined_scores, text, [key |-> text, score |-> part])

\* The loop "Add BM25 results" over top = bm25_scores[:k*2].
RECURSIVE AddBm25(_, _, _, _)
AddBm25(combined_scores, top, max_bm25, alpha) ==
    IF top = <<>> THEN combined_scores
    ELSE AddBm25Entry(AddBm25(combined_scores, SubSeq(top, 1, Len(top) - 1),
                              max_bm25, alpha),
                      top[Len(top)].text,
                      RMul(RSub(ROne, alpha), NormScore(top[Len(top)].score, max_bm25)))

\* combined_scores before the final sort, from dense_docs and the sorted
\* bm25_scores: both maxima (default 1.0), then the two loops.
CombinedScores(dense_docs, bm25_scores, k, alpha) ==
    AddBm25(AddDense(dense_docs, RMax(Scores(dense_docs), ROne), alpha),
            Take(bm25_scores, k * 2), RMax(Scores(bm25_scores), ROne), alpha)

\* return [(item["doc"], item["score"]) for item in sorted_results], a doc
\* being named by its page_content.
Results(sorted_results) ==
    [p \in DOMAIN sorted_results |->
        [doc |-> sorted_results[p].key, score |-> sorted_results[p].score]]

\* A search whose dense retrieval has no try/except: the exception of the
\* vector store leaves search.
FuseReraise(dense, bm25_scores, k, alpha) ==
    IF dense.exc \/ \E p \in DOMAIN bm25_scores : Raised(bm25_scores[p].score) THEN Raise
    ELSE Return(Results(Take(SortDesc(
            CombinedScores(DenseDocs(dense.value), SortDesc(bm25_scores), k, alpha)), k)))

\* search from the BM25 loop on.  dense is the outcome of
\* vector_store.similarity_search_with_score(query, k=k*2): a failure
\* leaves dense_docs empty.  bm25_scores is the loop's list, unsorted.
Fuse(dense, bm25_scores, k, alpha) ==
    IF \E p \in DOMAIN bm25_scores : Raised(bm25_scores[p].score) THEN Raise
    ELSE Return(Results(Take(SortDesc(
            CombinedScores(IF dense.exc THEN <<>> ELSE DenseDocs(dense.value),
                           SortDesc(bm25_scores), k, alpha)), k)))

\* HybridSearch.search(query, k, alpha)
search(hs, dense, query, k, alpha) ==
    Fuse(dense, Bm25Scores(hs, _tokenize(query), Len(hs.bm25_index)), k, alpha)

\* bm25_scores after its sort: the pure BM25 ranking of the index.
Bm25Ranking(hs, query) ==
    SortDesc(Bm25Scores(hs, _tokenize(query), Len(hs.bm25_index)))

\* ------------------------------------------------------------------------
\* The vector store (Chroma), as the engine uses it
\* ------------------------------------------------------------------------

\* vector_store.similarity_search_with_score(query, k=n) over a collection:
\* the n nearest units as (content, distance), nearest first.  dist gives
\* each text's distance to the query (an embedding is a function of the
\* text); units at equal distance come in the collection's order.
similarity_search_with_score(documents, dist, n) ==
    LET ranked == SortDesc([p \in DOMAIN documents |->
                               [content |-> documents[p],
                                score |-> <<-dist[documents[p]], 1>>]])
    IN  [p \in DOMAIN Take(ranked, n) |->
            [content |-> ranked[p].content,
             score |-> <<dist[ranked[p].content], 1>>]]

\* vector_store.similarity_search(query, k=n): the documents alone.
similarity_search(documents, dist, n) ==
    LET with_score == similarity_search_with_score(documents, dist, n)
    IN  [p \in DOMAIN with_score |-> with_score[p].content]

\* ------------------------------------------------------------------------
\* ReRanker
\* ------------------------------------------------------------------------

\* A re-ranker without truncation: every document comes back.
rerank_all(model, predicted, documents, top_k) == documents

\* ReRanker.rerank(query, documents, top_k).  model is FALSE when the
\* cross-encoder failed to load (self.model = None); predicted is the
\* outcome of self.model.predict(pairs): scores in document order, or an
\* exception.
rerank(model, predicted, documents, top_k) ==
    IF ~model \/ documents = <<>> THEN Take(documents, top_k)
    ELSE IF predicted.exc THEN Take(documents, top_k)
    ELSE LET doc_scores == SortDesc([p \in DOMAIN documents |->
                                        [key |-> documents[p],
                                         score |-> predicted.value[p]]])
         IN  [p \in DOMAIN Take(doc_scores, top_k) |-> doc_scores[p].key]

\* ------------------------------------------------------------------------
\* QueryExpansion
\* ------------------------------------------------------------------------

\* response.split("\n")
RECURSIVE SplitLines(_)
SplitLines(response) ==
    IF \A p \in DOMAIN response : response[p] # "\n" THEN <<response>>
    ELSE LET i == CHOOSE p \in DOMAIN response :
                      /\ response[p] = "\n"
                      /\ \A q \in 1..(p - 1) : response[q] # "\n"
         IN  <<SubSeq(response, 1, i - 1)>>
                 \o SplitLines(SubSeq(response, i + 1, Len(response)))

\* [line.strip() for line in response.split("\n") if line.strip()]
Alternatives(response) ==
    SelectSeq([p \in DOMAIN SplitLines(response) |-> Strip(SplitLines(response)[p])],
              LAMBDA line : line # <<>>)

\* What an expand_query call leaves: its return value, the cache after it,
\* whether llm.invoke was called.
Expanded(result, cache, invoked) ==
    [result |-> result, expansion_cache |-> cache, invoked |-> invoked]

\* An expand_query that stores [query] when the generation fails.
expand_query_storing_failure(cache, query, llm) ==
    IF query \in DOMAIN cache THEN Expanded(cache[query], cache, FALSE)
    ELSE IF llm.exc
    THEN Expanded(<<query>>, [q \in DOMAIN cache \cup {query} |->
                                 IF q = query THEN <<query>> ELSE cache[q]], TRUE)
    ELSE Expanded(<<query>> \o Take(Alternatives(llm.value), 3),
                  [q \in DOMAIN cache \cup {query} |->
                      IF q = query THEN <<query>> \o Take(Alternatives(llm.value), 3)
                      ELSE cache[q]], TRUE)

\* QueryExpansion.expand_query(query, llm) on a cache; llm is the outcome
\* of llm.invoke(prompt): its response, or an exception.
expand_query(cache, query, llm) ==
    IF query \in DOMAIN cache THEN Expanded(cache[query], cache, FALSE)
    ELSE IF llm.exc THEN Expanded(<<query>>, cache, TRUE)
    ELSE Expanded(<<query>> \o Take(Alternatives(llm.value), 3),
                  [q \in DOMAIN cache \cup {query} |->
                      IF q = query THEN <<query>> \o Take(Alternatives(llm.value), 3)
                      ELSE cache[q]], TRUE)

\* ------------------------------------------------------------------------
\* CustomEmbeddings (rag_engine.py, and AdvancedRAGEngine._create_embeddings)
\* ------------------------------------------------------------------------

\* The loop of embed_documents, the same in both classes: None becomes "",
\* a text empty after strip() becomes "empty", any other text is stripped.
sanitized_texts(texts) ==
    [p \in DOMAIN texts |->
        IF texts[p] = None THEN <<>>
        ELSE IF Strip(texts[p]) = <<>> THEN <<"e", "m", "p", "t", "y">>
        ELSE Strip(texts[p])]

\* embed_documents(texts): the argument of self.model.encode, and whether
\* encode is called ("if not sanitized_texts: return []").
embed_documents(texts) ==
    [encoded |-> sanitized_texts(texts), called |-> sanitized_texts(texts) # <<>>]

\* embed_query(text) of AdvancedRAGEngine's embeddings:
\* text_str = str(text).strip() if text else "empty"; str(None) is not
\* reached, None being falsy.
adv_embed_query(text) ==
    [encoded |-> << IF text # None /\ text # <<>> THEN Strip(text)
                    ELSE <<"e", "m", "p", "t", "y">> >>,
     called |-> TRUE]

\* embed_query(text) of rag_engine.CustomEmbeddings: text goes to encode as
\* it is.
rag_embed_query(text) == [encoded |-> <<text>>, called |-> TRUE]

\* ------------------------------------------------------------------------
\* ConversationMemory
\* ------------------------------------------------------------------------

\* ConversationMemory.__init__(max_history=5)
max_history == 5

\* self.sessions[session_id] of the defaultdict(list), read without
\* inserting.
History(sessions, session_id) ==
    IF session_id \in DOMAIN sessions THEN sessions[session_id] ELSE <<>>

\* A truncation that keeps the first N turns: self.sessions[session_id][:N].
KeepFirst(turns) == Take(turns, max_history)

\* "Keep only last N turns"
KeepLast(turns) == IF Len(turns) > max_history THEN LastN(turns, max_history) ELSE turns

\* ConversationMemory.add_turn: the session map after the call.
add_turn(sessions, session_id, user_msg, bot_msg) ==
    LET turns == Append(History(sessions, session_id),
                        [user |-> user_msg, bot |-> bot_msg])
    IN  [s \in DOMAIN sessions \cup {session_id} |->
            IF s = session_id THEN KeepLast(turns) ELSE sessions[s]]

\* "\n".join(parts)
RECURSIVE Join(_)
Join(parts) ==
    IF parts = <<>> THEN <<>>
    ELSE IF Len(parts) = 1 THEN parts[1]
    ELSE parts[1] \o <<"\n">> \o Join(Tail(parts))

UserPrefix == <<"U", "s", "e", "r", ":", " ">>
AssistantPrefix == <<"A", "s", "s", "i", "s", "t", "a", "n", "t", ":", " ">>

\* A rendering of the whole history.
AllTurns(history) == history

\* The turns get_context renders: history[-3:].
ContextTurns(history) == LastN(history, 3)

\* ConversationMemory.get_context: reads with sessions.get, inserts nothing.
get_context(sessions, session_id) ==
    LET history == History(sessions, session_id)
        turns == ContextTurns(history)
    IN  IF history = <<>> THEN <<>>
        ELSE Join([p \in 1..(2 * Len(turns)) |->
                     IF p % 2 = 1
                     THEN UserPrefix \o turns[(p + 1) \div 2].user
                     ELSE AssistantPrefix \o turns[p \div 2].bot])

\* A clear_session that empties the whole map: self.sessions.clear().
clear_all_sessions(sessions, session_id) == <<>>

\* ConversationMemory.clear_session: the session map after the call.
clear_session(sessions, session_id) ==
    [s \in DOMAIN sessions \ {session_id} |-> sessions[s]]

\* ------------------------------------------------------------------------
\* AdvancedRAGEngine: response cache and sanitization
\* ------------------------------------------------------------------------

\* cache_key = f"{question}_{session_id}" if session_id else question
CacheKey(question, session_id) ==
    IF Truthy(session_id) THEN question \o <<"_">> \o session_id ELSE question

\* The (question, session_id) of an ask call.  ask reads session_id only
\* through "if session_id", so an empty session id is an absent one.
Pair(question, session_id) ==
    <<question, IF Truthy(session_id) THEN session_id ELSE None>>

\* The except branch of ask: the fixed apology and a source count of 0.
error_message ==
    <<"I apologize, I'm having trouble right now. ",
      "Please try again or contact us directly.">>

\* An except branch that lets the exception go on: "raise".
AskReraise(response_time_ms) == Raise

AskExcept(response_time_ms) == Return(<<error_message, response_time_ms, 0>>)

\* batch_size of AdvancedRAGEngine._process_documents
batch_size == 100

\* The sanitization loop of _process_documents over enumerate(chunks): a
\* chunk whose content is None, empty or shorter than 3 after strip() is
\* dropped; a kept chunk has its content stripped and chunk_id set to its
\* index in chunks (0-based).
Sanitize(chunks, business_id, source) ==
    LET stripped == [p \in DOMAIN chunks |->
                        [i |-> p - 1,
                         raw |-> chunks[p],
                         content |-> IF chunks[p] = None THEN <<>>
                                     ELSE Strip(chunks[p])]]
        Kept(c) == ~(c.raw = None \/ c.content = <<>> \/ Len(c.content) < 3)
        kept == SelectSeq(stripped, Kept)
    IN  [j \in DOMAIN kept |->
            [page_content |-> kept[j].content,
             business_id |-> business_id,
             source |-> source,
             chunk_id |-> kept[j].i,
             total_chunks |-> Len(chunks)]]

\* The sanitization loop of RAGEngine._process_documents: the same filter
\* and strip; the metadata update sets no total_chunks.
RagSanitize(chunks, business_id, source) ==
    LET stripped == [p \in DOMAIN chunks |->
                        [i |-> p - 1,
                         raw |-> chunks[p],
                         content |-> IF chunks[p] = None THEN <<>>
                                     ELSE Strip(chunks[p])]]
        Kept(c) == ~(c.raw = None \/ c.content = <<>> \/ Len(c.content) < 3)
        kept == SelectSeq(stripped, Kept)
    IN  [j \in DOMAIN kept |->
            [page_content |-> kept[j].content,
             business_id |-> business_id,
             source |-> source,
             chunk_id |-> kept[j].i]]

\* A guard that lets every chunk list through.
NeverEmpty(chunks, valid_chunks) == FALSE

\* "if not chunks: raise" and "if not valid_chunks: raise": the two checks
\* that end _process_documents before its "async with".
NoValidChunks(chunks, valid_chunks) == chunks = <<>> \/ valid_chunks = <<>>

\* The page_content of each chunk of a list.
Contents(chunks) == [p \in DOMAIN chunks |-> chunks[p].page_content]

\* A slice one unit short of a batch: valid_chunks[i:i + batch_size - 1].
ShortBatch(valid_chunks, i) ==
    SubSeq(valid_chunks, i + 1,
           IF i + batch_size - 1 < Len(valid_chunks) THEN i + batch_size - 1
           ELSE Len(valid_chunks))

\* valid_chunks[i:i + batch_size] for a 0-based i
Batch(valid_chunks, i) ==
    SubSeq(valid_chunks, i + 1,
           IF i + batch_size < Len(valid_chunks) THEN i + batch_size
           ELSE Len(valid_chunks))

\* ------------------------------------------------------------------------
\* State
\* ------------------------------------------------------------------------

VARIABLES
    collection,         \* per tenant: the documents of its Chroma collection, in order
    hybrid_search,      \* per tenant: the HybridSearch of its AdvancedRAGEngine
    use_hybrid_search,  \* AdvancedRAGEngine.use_hybrid_search
    use_reranking,      \* AdvancedRAGEngine.use_reranking
    reranker_model,     \* FALSE when ReRanker.model is None
    _advanced_rag_engines, \* the tenants with an engine in the global cache
    dropped_calls,      \* the calls running on an engine dropped from the cache
    adv_lock,           \* AdvancedRAGEngine._vector_store_lock
    rag_lock,           \* RAGEngine._vector_store_lock
    ingestions,         \* the _process_documents coroutines
    write_log,          \* history: every add_documents call, as it finished
    response_cache,     \* AdvancedRAGEngine.response_cache
    sessions,           \* AdvancedRAGEngine.conversation_memory.sessions
    asks,               \* the ask coroutines
    last_ask,           \* history: the last ask or clear_cache call to return
    calls_made,         \* history: the numbers of ask and clear_cache calls made
    cache_writer,       \* history: the (question, session_id) that stored each cache key
    pair_responses,     \* history: per (question, session_id), its last stored response
    added_turns,        \* history: per session, the turns added since it was last cleared
    memory_calls,       \* history: the number of direct ConversationMemory calls, and the last
    search_call,        \* the last HybridSearch.search call: its inputs and its result
    rerank_call,        \* the last ReRanker.rerank call: its inputs and its result
    expansion_cache,    \* QueryExpansion.expansion_cache
    expand_call,        \* history: the expand_query calls made, the last, what succeeded
    embed_call          \* the last CustomEmbeddings call: its input, what the model was given

vars == <<collection, hybrid_search, use_hybrid_search, use_reranking, reranker_model,
          _advanced_rag_engines, dropped_calls, adv_lock, rag_lock, ingestions, write_log, response_cache, sessions, asks,
          last_ask, calls_made, cache_writer, pair_responses, added_turns,
          memory_calls, search_call, rerank_call, expansion_cache, expand_call,
          embed_call>>

engine_vars == <<use_hybrid_search, use_reranking, reranker_model,
                 _advanced_rag_engines, dropped_calls>>
ingest_vars == <<adv_lock, rag_lock, ingestions, write_log>>
ask_vars == <<response_cache, asks, last_ask, calls_made, cache_writer, pair_responses>>
memory_vars == <<sessions, added_turns, memory_calls>>
component_vars == <<rerank_call, expansion_cache, expand_call, embed_call>>

\* The tenants (business ids) and the ingestion requests in flight.
Tenants == {"t1", "t2"}
Ingestions == {"i1", "i2"}

\* asyncio.Lock(): unlocked, no waiters.
Unlocked == [locked |-> FALSE, waiters |-> <<>>]

\* RAGEngine runs vector_store.add_documents on the event loop's own thread:
\* until it returns no coroutine takes a step.
LoopBusy == \E i \in Ingestions : ingestions[i].pc = "adding"

\* ------------------------------------------------------------------------
\* AdvancedRAGEngine._process_documents
\* ------------------------------------------------------------------------

\* An acquire that never waits: the write made without the lock.
NeverWaits(lock) == TRUE

\* The lock can be taken without waiting: asyncio.Lock.acquire's fast path.
CanAcquire(lock) == ~lock.locked /\ lock.waiters = <<>>

\* await asyncio.to_thread(self.vector_store.add_documents, batch), entered
\* with the lock held: the call is handed to a worker thread.
SubmitBatch(i, t, valid_chunks, start) ==
    ingestions' = [ingestions EXCEPT ![i] =
        [pc |-> "in_thread", kind |-> "adv", tenant |-> t,
         valid_chunks |-> valid_chunks, i |-> start, ok |-> TRUE,
         chunks_count |-> 0,
         waited |-> ingestions[i].waited \/ ingestions[i].pc = "waiting"]]

\* First step of the coroutine: sanitization, then "async with
\* _vector_store_lock": the lock is taken at once when it is free, else the
\* coroutine joins the lock's waiters.  chunks is what hierarchical_split
\* returned; an empty list, or no valid chunk, raises.
AdvProcessDocuments(i, t, chunks) ==
    LET valid_chunks == Sanitize(chunks, t, "source")
    IN  /\ ~LoopBusy
        /\ t \in _advanced_rag_engines
        /\ ingestions[i].pc = "idle"
        /\ IF NoValidChunks(chunks, valid_chunks)
           THEN /\ ingestions' = [ingestions EXCEPT ![i].pc = "failed",
                                                    ![i].kind = "adv",
                                                    ![i].tenant = t]
                /\ UNCHANGED adv_lock
           ELSE IF CanAcquire(adv_lock)
           THEN /\ adv_lock' = [adv_lock EXCEPT !.locked = TRUE]
                /\ SubmitBatch(i, t, valid_chunks, 0)
           ELSE /\ adv_lock' = [adv_lock EXCEPT !.waiters = Append(@, i)]
                /\ ingestions' = [ingestions EXCEPT ![i] =
                      [pc |-> "waiting", kind |-> "adv", tenant |-> t,
                       valid_chunks |-> valid_chunks, i |-> 0, ok |-> TRUE,
                       chunks_count |-> 0, waited |-> FALSE]]
        /\ UNCHANGED <<collection, hybrid_search, rag_lock, write_log>>
        /\ UNCHANGED <<engine_vars, ask_vars, memory_vars, search_call, component_vars>>

\* A waiter that goes on while the lock is still held: its first batch is
\* handed to a worker thread beside the holder's.
AdvLockAcquiredEarly(i) ==
    /\ ~LoopBusy
    /\ ingestions[i].pc = "waiting"
    /\ adv_lock.waiters # <<>> /\ Head(adv_lock.waiters) = i
    /\ adv_lock' = [locked |-> TRUE, waiters |-> Tail(adv_lock.waiters)]
    /\ SubmitBatch(i, ingestions[i].tenant, ingestions[i].valid_chunks, 0)
    /\ UNCHANGED <<collection, hybrid_search, rag_lock, write_log>>
    /\ UNCHANGED <<engine_vars, ask_vars, memory_vars, search_call, component_vars>>

\* A waiter woken by release, first in the queue, takes the lock and hands
\* its first batch to a worker thread.
AdvLockAcquired(i) ==
    /\ ~LoopBusy
    /\ ingestions[i].pc = "waiting"
    /\ ~adv_lock.locked
    /\ adv_lock.waiters # <<>> /\ Head(adv_lock.waiters) = i
    /\ adv_lock' = [locked |-> TRUE, waiters |-> Tail(adv_lock.waiters)]
    /\ SubmitBatch(i, ingestions[i].tenant, ingestions[i].valid_chunks, 0)
    /\ UNCHANGED <<collection, hybrid_search, rag_lock, write_log>>
    /\ UNCHANGED <<engine_vars, ask_vars, memory_vars, search_call, component_vars>>

\* The worker thread's vector_store.add_documents(batch) finishes: the batch
\* is in the collection, or the call raised and nothing was written.
ThreadAddDocuments(i, ok) ==
    LET t == ingestions[i].tenant
        batch == Batch(ingestions[i].valid_chunks, ingestions[i].i)
    IN  /\ ingestions[i].pc = "in_thread"
        /\ collection' = IF ok THEN [collection EXCEPT ![t] = @ \o Contents(batch)]
                         ELSE collection
        /\ ingestions' = [ingestions EXCEPT ![i].pc = "batch_done", ![i].ok = ok]
        /\ write_log' = Append(write_log, [ing |-> i, kind |-> "adv", ok |-> ok,
                                           units |-> Len(batch), batch |-> batch])
        /\ UNCHANGED <<hybrid_search, adv_lock, rag_lock>>
        /\ UNCHANGED <<engine_vars, ask_vars, memory_vars, search_call, component_vars>>

\* A failure that leaves the lock held: the exception passed on without
\* the release of the "async with".
AdvBatchFailedHolding(i) ==
    /\ ~LoopBusy
    /\ ingestions[i].pc = "batch_done" /\ ~ingestions[i].ok
    /\ ingestions' = [ingestions EXCEPT ![i].pc = "failed"]
    /\ UNCHANGED <<collection, hybrid_search, adv_lock, rag_lock, write_log>>
    /\ UNCHANGED <<engine_vars, ask_vars, memory_vars, search_call, component_vars>>

\* The coroutine resumes after a batch that raised: the exception leaves
\* the "async with", which releases the lock; no rebuild.
AdvBatchFailed(i) ==
    /\ ~LoopBusy
    /\ ingestions[i].pc = "batch_done" /\ ~ingestions[i].ok
    /\ adv_lock' = [adv_lock EXCEPT !.locked = FALSE]
    /\ ingestions' = [ingestions EXCEPT ![i].pc = "failed"]
    /\ UNCHANGED <<collection, hybrid_search, rag_lock, write_log>>
    /\ UNCHANGED <<engine_vars, ask_vars, memory_vars, search_call, component_vars>>

\* The coroutine resumes after a batch that was written, with more to
\* write: the next batch goes to a worker thread, the lock still held.
AdvNextBatch(i) ==
    /\ ~LoopBusy
    /\ ingestions[i].pc = "batch_done" /\ ingestions[i].ok
    /\ ingestions[i].i + batch_size < Len(ingestions[i].valid_chunks)
    /\ SubmitBatch(i, ingestions[i].tenant, ingestions[i].valid_chunks,
                   ingestions[i].i + batch_size)
    /\ UNCHANGED <<collection, hybrid_search, adv_lock, rag_lock, write_log>>
    /\ UNCHANGED <<engine_vars, ask_vars, memory_vars, search_call, component_vars>>

\* What collection.get gives for a tenant: its documents, or an exception.
CollectionGet(t, returned) == IF returned THEN Return(collection[t]) ELSE Raise

\* The coroutine resumes after its last batch: the lock is released, the
\* engine's sparse index is rebuilt from the collection (when the engine
\* has a HybridSearch; returned says whether collection.get returned) and
\* the call returns.  The index of an engine dropped from the cache is not
\* the index of the tenant's engine.
AdvFinish(i, returned) ==
    LET t == ingestions[i].tenant
    IN  /\ ~LoopBusy
        /\ ingestions[i].pc = "batch_done" /\ ingestions[i].ok
        /\ ingestions[i].i + batch_size >= Len(ingestions[i].valid_chunks)
        /\ adv_lock' = [adv_lock EXCEPT !.locked = FALSE]
        /\ hybrid_search' =
              IF use_hybrid_search /\ i \notin dropped_calls
              THEN [hybrid_search EXCEPT ![t] = _build_bm25_index(@, CollectionGet(t, returned))]
              ELSE hybrid_search
        /\ ingestions' = [ingestions EXCEPT ![i].pc = "done",
                                            ![i].chunks_count =
                                                Len(ingestions[i].valid_chunks)]
        /\ UNCHANGED <<collection, rag_lock, write_log>>
        /\ UNCHANGED <<engine_vars, ask_vars, memory_vars, search_call, component_vars>>

\* ------------------------------------------------------------------------
\* RAGEngine._process_documents
\* ------------------------------------------------------------------------

\* The coroutine up to its call of self.vector_store.add_documents: the
\* same sanitization, then "async with RAGEngine._vector_store_lock" and the
\* call itself, made on the event loop's thread with all valid chunks.
RagProcessDocuments(i, t, chunks) ==
    LET valid_chunks == RagSanitize(chunks, t, "source")
    IN  /\ ~LoopBusy
        /\ ingestions[i].pc = "idle"
        /\ CanAcquire(rag_lock)
        /\ IF NoValidChunks(chunks, valid_chunks)
           THEN /\ ingestions' = [ingestions EXCEPT ![i].pc = "failed",
                                                    ![i].kind = "rag",
                                                    ![i].tenant = t]
                /\ UNCHANGED rag_lock
           ELSE /\ rag_lock' = [rag_lock EXCEPT !.locked = TRUE]
                /\ ingestions' = [ingestions EXCEPT ![i] =
                      [pc |-> "adding", kind |-> "rag", tenant |-> t,
                       valid_chunks |-> valid_chunks, i |-> 0, ok |-> TRUE,
                       chunks_count |-> 0, waited |-> FALSE]]
        /\ UNCHANGED <<collection, hybrid_search, adv_lock, write_log>>
        /\ UNCHANGED <<engine_vars, ask_vars, memory_vars, search_call, component_vars>>

\* add_documents returns or raises and the coroutine runs on to its end:
\* the lock is released and the call returns, or raises "Vector store
\* update failed".
RagAddDocuments(i, ok) ==
    LET t == ingestions[i].tenant
    IN  /\ ingestions[i].pc = "adding"
        /\ collection' = IF ok
                         THEN [collection EXCEPT ![t] =
                                    @ \o Contents(ingestions[i].valid_chunks)]
                         ELSE collection
        /\ rag_lock' = [rag_lock EXCEPT !.locked = FALSE]
        /\ ingestions' = [ingestions EXCEPT ![i].pc = IF ok THEN "done" ELSE "failed",
                                            ![i].ok = ok,
                                            ![i].chunks_count =
                                                IF ok THEN Len(ingestions[i].valid_chunks)
                                                ELSE 0]
        /\ write_log' = Append(write_log, [ing |-> i, kind |-> "rag", ok |-> ok,
                                           units |-> Len(ingestions[i].valid_chunks),
                                           batch |-> ingestions[i].valid_chunks])
        /\ UNCHANGED <<hybrid_search, adv_lock>>
        /\ UNCHANGED <<engine_vars, ask_vars, memory_vars, search_call, component_vars>>

\* RAGEngine.delete_collection: vector_store.delete_collection() empties
\* the tenant's collection and the call returns True, or it raises and the
\* call returns False with the collection as it was.
RagDeleteCollection(t, ok) ==
    /\ ~LoopBusy
    /\ collection' = IF ok THEN [collection EXCEPT ![t] = <<>>] ELSE collection
    /\ UNCHANGED <<hybrid_search, ingest_vars>>
    /\ UNCHANGED <<engine_vars, ask_vars, memory_vars, search_call, component_vars>>

\* ------------------------------------------------------------------------
\* Initial states
\* ------------------------------------------------------------------------

\* No ingestion running, both locks free.
IngestIdle ==
    /\ adv_lock = Unlocked
    /\ rag_lock = Unlocked
    /\ ingestions =
          [i \in Ingestions |->
              [pc |-> "idle", kind |-> "none", tenant |-> "none",
               valid_chunks |-> <<>>, i |-> 0, ok |-> TRUE, chunks_count |-> 0,
               waited |-> FALSE]]
    /\ write_log = <<>>

\* Every tenant has its engine in the cache: HybridSearch.__init__ ran over
\* each tenant's collection as the engine found it, collection.get
\* returning or raising.
EnginesBuilt ==
    /\ _advanced_rag_engines = Tenants
    /\ dropped_calls = {}
    /\ \E failing \in SUBSET Tenants :
          hybrid_search =
              [t \in Tenants |->
                  _build_bm25_index(EmptyIndex, CollectionGet(t, t \notin failing))]

\* The chunk lists uploaded in the ingestion runs: one short chunk to trim;
\* nothing valid; a chunk too short followed by a valid one; and a document
\* of one more chunk than a batch holds.
TextXY == <<"x", " ", "y">>
ChunkLists ==
    { << <<" ">> \o TextXY \o <<"\n">> >>,
      << None, <<" ", " ">>, <<"x", "y">> >>,
      << <<"x", "y">>, TextXY \o <<" ">> >>,
      [p \in 1..(batch_size + 1) |-> TextXY] }

\* ------------------------------------------------------------------------
\* AdvancedRAGEngine.ask, clear_cache
\* ------------------------------------------------------------------------

\* The ask requests in flight, and the engine (tenant) they are sent to.
Asks == {"a1", "a2"}
AskTenant == "t1"

\* Bounds: ask calls made, clear_cache calls made, the largest
\* response_time_ms measured, the largest distance the vector store reports.
MaxAsks == 2
MaxClears == 1
MaxEngineClears == 1
MaxElapsed == 1
MaxDist == 1

\* Questions and session ids sent to ask; None is an absent session id.
Questions == {<<"x">>, <<"x", "_", "y">>}
SessionIds == {None, <<>>, <<"y">>}

\* What self.llm.invoke returns when it does not raise.
LlmOutputs == {<<"o", "k">>, <<" ", "n", "o", "\n">>}

\* What self.model.predict returns for n pairs when it does not raise.
Predictions(n) == [1..n -> {<<0, 1>>, <<1, 1>>}]

IdleAsk ==
    [pc |-> "idle", question |-> <<>>, session_id |-> None, sources |-> 0,
     dense_failed |-> FALSE, rerank_failed |-> FALSE, stages |-> <<>>]

NoAsk == [op |-> "none"]

\* What the vector store's search may do for a query over a collection:
\* raise, or return the n nearest units under some distances of the
\* collection's texts.
DenseOutcomes(documents, n) ==
    {Raise} \cup
    {Return(similarity_search_with_score(documents, dist, n)) :
        dist \in [Range(documents) -> 0..MaxDist]}

\* docs = [doc for doc, _ in doc_scores], the exception of search passed on.
Docs(doc_scores) ==
    IF doc_scores.exc THEN Raise
    ELSE Return([p \in DOMAIN doc_scores.value |-> doc_scores.value[p].doc])

\* "Retrieve relevant documents": the outcome of the retrieval branch of
\* ask; dense is the outcome of the vector store's search (k*2 = 20 units
\* with scores for the hybrid search, of which the plain search,
\* similarity_search(question, k=10), has the first 10).
Retrieve(question, dense) ==
    IF use_hybrid_search
    THEN Docs(search(hybrid_search[AskTenant], dense, question, 10, <<1, 2>>))
    ELSE IF dense.exc THEN Raise
         ELSE Return([p \in DOMAIN Take(dense.value, 10) |-> dense.value[p].content])

\* "Re-rank documents": rerank when a ReRanker exists and docs is not
\* empty, else docs[:5].
ReRankStep(docs, predicted) ==
    IF use_reranking /\ docs # <<>>
    THEN rerank(reranker_model, predicted, docs, 5)
    ELSE Take(docs, 5)

\* self.model.predict was called and raised.
PredictRaised(docs, predicted) ==
    use_reranking /\ docs # <<>> /\ reranker_model /\ predicted.exc

\* Which collaborators raised during an ask call.
Failed(dense, rerank_step, llm) == [dense |-> dense, rerank |-> rerank_step, llm |-> llm]

\* The stages of ask, in the order of its statements, from the retrieval
\* branch to the call of llm.invoke: the hybrid search retrieves and fuses,
\* the plain search only retrieves; then re-ranking (or docs[:5]), the
\* prompt, the generation.
StagesToGenerate ==
    (IF use_hybrid_search THEN <<"RETRIEVE", "FUSE">> ELSE <<"RETRIEVE">>)
        \o <<"RERANK", "PROMPT_ASSEMBLE", "GENERATE">>

\* The stages of ask after the answer, in the order of its statements:
\* "if session_id: add_turn", then "response_cache[cache_key] = result".
StagesAfterAnswer(session_id) ==
    (IF Truthy(session_id) THEN <<"MEMORY_UPDATE">> ELSE <<>>) \o <<"CACHE_WRITE">>

\* What is recorded of an ask call as it returns: its arguments, whether it
\* was a cache hit, its outcome, the pair whose ask stored the response
\* returned, which collaborators raised, and the stages it went through.
AskEntry(question, session_id, hit, result, stored_by, failed, stages) ==
    [op |-> "ask", question |-> question, session_id |-> session_id, hit |-> hit,
     result |-> result, stored_by |-> stored_by, dense_failed |-> failed.dense,
     rerank_failed |-> failed.rerank, llm_failed |-> failed.llm,
     stages |-> stages \o <<"DONE">>]

\* A dict of one slot: storing a key drops every other key.
AssignEvicting(dict, key, value) == [x \in {key} |-> value]

\* dict[key] = value on a dict whose order is never read.
Assign(dict, key, value) ==
    [x \in DOMAIN dict \cup {key} |-> IF x = key THEN value ELSE dict[x]]

\* A cache hit that records its turn: the cached answer is added to the
\* session before it is returned.
AskCacheHitRecording(a, question, session_id) ==
    LET cache_key == CacheKey(question, session_id)
    IN  /\ ~LoopBusy
        /\ AskTenant \in _advanced_rag_engines
        /\ asks[a].pc = "idle"
        /\ calls_made.ask < MaxAsks
        /\ cache_key \in DOMAIN response_cache
        /\ last_ask' =
              AskEntry(question, session_id, TRUE, Return(response_cache[cache_key]),
                       cache_writer[cache_key], Failed(FALSE, FALSE, FALSE),
                       <<"CACHE_HIT">>)
        /\ calls_made' = [calls_made EXCEPT !.ask = @ + 1]
        /\ sessions' = IF Truthy(session_id)
                       THEN add_turn(sessions, session_id, question,
                                     response_cache[cache_key][1])
                       ELSE sessions
        /\ UNCHANGED <<response_cache, asks, cache_writer, pair_responses>>
        /\ UNCHANGED <<collection, hybrid_search, engine_vars, ingest_vars,
                       added_turns, memory_calls, search_call, component_vars>>

\* ask, cache hit: the cached tuple is returned as it is.
AskCacheHit(a, question, session_id) ==
    LET cache_key == CacheKey(question, session_id)
    IN  /\ ~LoopBusy
        /\ AskTenant \in _advanced_rag_engines
        /\ asks[a].pc = "idle"
        /\ calls_made.ask < MaxAsks
        /\ cache_key \in DOMAIN response_cache
        /\ last_ask' =
              AskEntry(question, session_id, TRUE, Return(response_cache[cache_key]),
                       cache_writer[cache_key], Failed(FALSE, FALSE, FALSE),
                       <<"CACHE_HIT">>)
        /\ calls_made' = [calls_made EXCEPT !.ask = @ + 1]
        /\ UNCHANGED <<response_cache, asks, cache_writer, pair_responses>>
        /\ UNCHANGED <<collection, hybrid_search, engine_vars, ingest_vars,
                       memory_vars, search_call, component_vars>>

\* The outcomes of self.model.predict for n documents.
PredictOutcomes(n) == {Raise} \cup {Return(v) : v \in Predictions(n)}

\* ask, cache miss, up to "await asyncio.to_thread(self.llm.invoke, ...)":
\* context, retrieval, re-ranking, prompt.  An exception raised by retrieval
\* ends the call in the except branch.  dense is the outcome of the vector
\* store's search, predicted that of the cross-encoder.
AskCacheMiss(a, question, session_id) ==
    LET cache_key == CacheKey(question, session_id)
    IN  /\ ~LoopBusy
        /\ AskTenant \in _advanced_rag_engines
        /\ asks[a].pc = "idle"
        /\ calls_made.ask < MaxAsks
        /\ cache_key \notin DOMAIN response_cache
        /\ calls_made' = [calls_made EXCEPT !.ask = @ + 1]
        /\ \E dense \in DenseOutcomes(collection[AskTenant], 10 * 2) :
              \E retrieved \in {Retrieve(question, dense)} :
                  IF retrieved.exc
                  THEN /\ \E response_time_ms \in 0..MaxElapsed :
                             last_ask' =
                                AskEntry(question, session_id, FALSE,
                                         AskExcept(response_time_ms),
                                         Pair(question, session_id),
                                         Failed(dense.exc, FALSE, FALSE),
                                         <<"RETRIEVE">>)
                       /\ UNCHANGED asks
                  ELSE /\ \E predicted \in PredictOutcomes(Len(retrieved.value)) :
                             asks' = [asks EXCEPT ![a] =
                                [pc |-> "generating", question |-> question,
                                 session_id |-> session_id,
                                 sources |-> Len(ReRankStep(retrieved.value, predicted)),
                                 dense_failed |-> dense.exc,
                                 rerank_failed |->
                                    PredictRaised(retrieved.value, predicted),
                                 stages |-> StagesToGenerate]]
                       /\ UNCHANGED last_ask
        /\ UNCHANGED <<response_cache, cache_writer, pair_responses>>
        /\ UNCHANGED <<collection, hybrid_search, engine_vars, ingest_vars,
                       memory_vars, search_call, component_vars>>

\* ask resumes after llm.invoke: on an answer, the turn is added to the
\* session (when there is a session id), then the result is cached and
\* returned; on an exception, the except branch returns the apology.  A
\* call running on an engine that was dropped from the cache writes that
\* engine's memory and cache, not those of the tenant's engine.
AskGenerated(a, generated, response_time_ms) ==
    LET question == asks[a].question
        session_id == asks[a].session_id
        cache_key == CacheKey(question, session_id)
        answer == Strip(generated.value)
        result == <<answer, response_time_ms, asks[a].sources>>
    IN  /\ ~LoopBusy
        /\ asks[a].pc = "generating"
        /\ asks' = [asks EXCEPT ![a] = IdleAsk]
        /\ IF generated.exc
           THEN /\ last_ask' =
                      AskEntry(question, session_id, FALSE, AskExcept(response_time_ms),
                               Pair(question, session_id),
                               Failed(asks[a].dense_failed, asks[a].rerank_failed, TRUE),
                               asks[a].stages)
                /\ UNCHANGED <<response_cache, cache_writer, pair_responses,
                               sessions, added_turns, memory_calls>>
           ELSE /\ sessions' = IF Truthy(session_id) /\ a \notin dropped_calls
                               THEN add_turn(sessions, session_id, question, answer)
                               ELSE sessions
                /\ added_turns' =
                      IF Truthy(session_id) /\ a \notin dropped_calls
                      THEN Assign(added_turns, session_id,
                                  Append(History(added_turns, session_id),
                                         [user |-> question, bot |-> answer]))
                      ELSE added_turns
                /\ response_cache' =
                      IF a \in dropped_calls THEN response_cache
                      ELSE Assign(response_cache, cache_key, result)
                /\ cache_writer' =
                      IF a \in dropped_calls THEN cache_writer
                      ELSE Assign(cache_writer, cache_key, Pair(question, session_id))
                /\ pair_responses' =
                      IF a \in dropped_calls THEN pair_responses
                      ELSE Assign(pair_responses, Pair(question, session_id), result)
                /\ memory_calls' =
                      IF Truthy(session_id) /\ a \notin dropped_calls
                      THEN [memory_calls EXCEPT !.op = "add_turn",
                                                !.session_id = session_id]
                      ELSE memory_calls
                /\ last_ask' =
                      AskEntry(question, session_id, FALSE, Return(result),
                               Pair(question, session_id),
                               Failed(asks[a].dense_failed, asks[a].rerank_failed, FALSE),
                               asks[a].stages \o StagesAfterAnswer(session_id))
        /\ dropped_calls' = dropped_calls \ {a}
        /\ UNCHANGED <<calls_made, use_hybrid_search, use_reranking, reranker_model,
                       _advanced_rag_engines>>
        /\ UNCHANGED <<collection, hybrid_search, ingest_vars, search_call,
                       component_vars>>

\* AdvancedRAGEngine.clear_cache
ClearCache ==
    /\ ~LoopBusy
    /\ AskTenant \in _advanced_rag_engines
    /\ calls_made.clear_cache < MaxClears
    /\ response_cache' = <<>>
    /\ cache_writer' = <<>>
    /\ pair_responses' = <<>>
    /\ last_ask' = [op |-> "clear_cache"]
    /\ calls_made' = [calls_made EXCEPT !.clear_cache = @ + 1]
    /\ UNCHANGED asks
    /\ UNCHANGED <<collection, hybrid_search, engine_vars, ingest_vars,
                   memory_vars, search_call, component_vars>>

\* clear_rag_cache: every engine is dropped from the global cache.  The
\* calls in flight go on, each on its dropped engine; the tenants are left
\* without an engine, which is to say without cached responses, sessions,
\* expansions or sparse index, until get_advanced_rag_engine makes one.
ClearRagCache ==
    /\ ~LoopBusy
    /\ calls_made.clear_rag_cache < MaxEngineClears
    /\ _advanced_rag_engines' = {}
    /\ dropped_calls' =
          dropped_calls
              \cup {a \in Asks : asks[a].pc # "idle"}
              \cup {i \in Ingestions :
                        /\ ingestions[i].kind = "adv"
                        /\ ingestions[i].pc \notin {"idle", "done", "failed"}}
    /\ response_cache' = <<>>
    /\ cache_writer' = <<>>
    /\ pair_responses' = <<>>
    /\ sessions' = <<>>
    /\ added_turns' = <<>>
    /\ expansion_cache' = <<>>
    /\ hybrid_search' = [t \in Tenants |-> EmptyIndex]
    /\ last_ask' = [op |-> "clear_rag_cache"]
    /\ calls_made' = [calls_made EXCEPT !.clear_rag_cache = @ + 1]
    /\ UNCHANGED <<collection, ingest_vars, asks, memory_calls, search_call,
                   rerank_call, expand_call, embed_call>>
    /\ UNCHANGED <<use_hybrid_search, use_reranking, reranker_model>>

\* get_advanced_rag_engine(t): the tenant's engine in the cache, or, when
\* there is none, a new AdvancedRAGEngine(t) with the default arguments,
\* whose HybridSearch is built from the collection (returned says whether
\* collection.get returned) and whose ReRanker has loaded its model or not.
GetAdvancedRagEngine(t, returned, loaded) ==
    /\ ~LoopBusy
    /\ t \notin _advanced_rag_engines
    /\ _advanced_rag_engines' = _advanced_rag_engines \cup {t}
    /\ hybrid_search' =
          [hybrid_search EXCEPT ![t] =
              _build_bm25_index(EmptyIndex, CollectionGet(t, returned))]
    /\ use_hybrid_search' = TRUE
    /\ use_reranking' = TRUE
    /\ reranker_model' = IF t = AskTenant THEN loaded ELSE reranker_model
    /\ UNCHANGED <<collection, dropped_calls, ingest_vars, ask_vars, memory_vars,
                   search_call, component_vars>>

\* AdvancedRAGEngine.get_stats; counted says whether collection.count()
\* returned: when it raises the result is {"error": str(e)}, with "count"
\* for the exception's message.  The call is
\* recorded with the operation that returned before it.
GetStats(counted) ==
    /\ ~LoopBusy
    /\ AskTenant \in _advanced_rag_engines
    /\ last_ask' =
          [op |-> "get_stats", after |-> last_ask.op,
           result |-> IF counted
                      THEN Return([business_id |-> AskTenant,
                                   total_chunks |-> Len(collection[AskTenant]),
                                   cached_responses |-> Cardinality(DOMAIN response_cache),
                                   active_sessions |-> Cardinality(DOMAIN sessions),
                                   hybrid_search_enabled |-> use_hybrid_search,
                                   reranking_enabled |-> use_reranking])
                      ELSE Return([error |-> <<"c", "o", "u", "n", "t">>])]
    /\ UNCHANGED <<response_cache, asks, calls_made, cache_writer, pair_responses>>
    /\ UNCHANGED <<collection, hybrid_search, engine_vars, ingest_vars,
                   memory_vars, search_call, component_vars>>

AskIdle ==
    /\ response_cache = <<>>
    /\ cache_writer = <<>>
    /\ pair_responses = <<>>
    /\ asks = [a \in Asks |-> IdleAsk]
    /\ last_ask = NoAsk
    /\ calls_made = [ask |-> 0, clear_cache |-> 0, clear_rag_cache |-> 0]

\* ------------------------------------------------------------------------
\* ConversationMemory, called directly
\* ------------------------------------------------------------------------

\* Bound: the calls made on one ConversationMemory from outside ask.
MaxMemoryCalls == 6

\* The session ids and messages of the direct calls.
MemorySessionIds == {<<"y">>, <<"z">>}
UserMessages == {<<"x">>, <<"y">>}
BotMessages == {<<"o", "k">>}

\* ConversationMemory.add_turn(session_id, user_msg, bot_msg)
AddTurn(session_id, user_msg, bot_msg) ==
    /\ memory_calls.n < MaxMemoryCalls
    /\ sessions' = add_turn(sessions, session_id, user_msg, bot_msg)
    /\ added_turns' =
          [s \in DOMAIN added_turns \cup {session_id} |->
              IF s = session_id
              THEN Append(History(added_turns, s), [user |-> user_msg, bot |-> bot_msg])
              ELSE added_turns[s]]
    /\ memory_calls' = [n |-> memory_calls.n + 1, op |-> "add_turn",
                        session_id |-> session_id]
    /\ UNCHANGED <<collection, hybrid_search, engine_vars, ingest_vars, ask_vars,
                   search_call, component_vars>>

\* ConversationMemory.clear_session(session_id)
ClearSession(session_id) ==
    /\ memory_calls.n < MaxMemoryCalls
    /\ sessions' = clear_session(sessions, session_id)
    /\ added_turns' = [s \in DOMAIN added_turns \ {session_id} |-> added_turns[s]]
    /\ memory_calls' = [n |-> memory_calls.n + 1, op |-> "clear_session",
                        session_id |-> session_id]
    /\ UNCHANGED <<collection, hybrid_search, engine_vars, ingest_vars, ask_vars,
                   search_call, component_vars>>

\* ConversationMemory.get_context(session_id): the history is read with
\* self.sessions.get(session_id, []), which leaves the defaultdict as it is.
GetContext(session_id) ==
    /\ memory_calls.n < MaxMemoryCalls
    /\ memory_calls' = [n |-> memory_calls.n + 1, op |-> "get_context",
                        session_id |-> session_id,
                        result |-> get_context(sessions, session_id)]
    /\ UNCHANGED <<sessions, added_turns>>
    /\ UNCHANGED <<collection, hybrid_search, engine_vars, ingest_vars, ask_vars,
                   search_call, component_vars>>

MemoryIdle ==
    /\ sessions = <<>>
    /\ added_turns = <<>>
    /\ memory_calls = [n |-> 0, op |-> "none", session_id |-> None]

\* ------------------------------------------------------------------------
\* HybridSearch.search, called on the engine's index
\* ------------------------------------------------------------------------

NoCall == [made |-> FALSE]

\* The texts of the units, the queries, and the k and alpha of the calls.
TextXXZ == <<"x", " ", "x", " ", "z">>
TextZ == <<"Z", "z", "!">>
SearchTexts == {TextXY, TextXXZ, TextZ, <<"!", "?", "!">>}
Queries == {<<"x">>, <<"X", " ", "y", "?">>}
Ks == {1, 2}
Alphas == {<<0, 1>>, <<1, 2>>, <<1, 1>>}

\* search(query, k, alpha) on the engine's HybridSearch; dense is the
\* outcome of the vector store's similarity_search_with_score(query, k=k*2).
Search(query, k, alpha, dense) ==
    /\ ~LoopBusy
    /\ ~search_call.made
    /\ search_call' =
          [made |-> TRUE, query |-> query, k |-> k, alpha |-> alpha, dense |-> dense,
           result |-> search(hybrid_search[AskTenant], dense, query, k, alpha)]
    /\ UNCHANGED <<collection, hybrid_search, engine_vars, ingest_vars, ask_vars,
                   memory_vars, component_vars>>

\* ------------------------------------------------------------------------
\* ReRanker.rerank, QueryExpansion.expand_query and CustomEmbeddings, called
\* directly
\* ------------------------------------------------------------------------

\* Bounds: the documents of a rerank call and its top_k; the expand_query
\* calls made; the texts of an embed_documents call.
MaxDocs == 3
MaxTopK == 3
MaxExpands == 3
MaxTexts == 3

\* The sequences over a set of at most n elements.
SeqsUpTo(S, n) == UNION {[1..m -> S] : m \in 0..n}

ComponentsIdle ==
    /\ rerank_call = NoCall
    /\ expansion_cache = <<>>
    /\ expand_call = [n |-> 0, succeeded |-> <<>>]
    /\ embed_call = NoCall

\* The documents given to rerank: some with the same content.
RerankDocuments == SeqsUpTo({TextXY, TextZ}, MaxDocs)

\* reranker.rerank(query, documents, top_k); predicted is the outcome of
\* self.model.predict(pairs).
Rerank(documents, top_k, predicted) ==
    /\ rerank_call' =
          [made |-> TRUE, documents |-> documents, top_k |-> top_k,
           failed |-> ~reranker_model \/ predicted.exc,
           result |-> rerank(reranker_model, predicted, documents, top_k)]
    /\ UNCHANGED <<collection, hybrid_search, engine_vars, ingest_vars, ask_vars,
                   memory_vars, search_call, expansion_cache, expand_call, embed_call>>

\* The queries expanded (two strings that differ by a space), and what
\* llm.invoke returns when it does not raise.
ExpandQueries == {<<"x">>, <<"x", " ">>}
ExpandResponses ==
    { <<>>,
      <<"a", "\n", "b">>,
      <<" ", "a", " ", "\n", "\n", "b", "\n", "c", "\n", "d", "\n">> }

\* query_expansion.expand_query(query, llm)
ExpandQuery(query, llm) ==
    /\ expand_call.n < MaxExpands
    /\ expansion_cache' = expand_query(expansion_cache, query, llm).expansion_cache
    /\ expand_call' =
          [n |-> expand_call.n + 1,
           query |-> query,
           invoked |-> expand_query(expansion_cache, query, llm).invoked,
           llm_failed |-> expand_query(expansion_cache, query, llm).invoked /\ llm.exc,
           result |-> expand_query(expansion_cache, query, llm).result,
           succeeded |->
              IF expand_query(expansion_cache, query, llm).invoked /\ ~llm.exc
              THEN [q \in DOMAIN expand_call.succeeded \cup {query} |->
                      IF q = query THEN expand_query(expansion_cache, query, llm).result
                      ELSE expand_call.succeeded[q]]
              ELSE expand_call.succeeded]
    /\ UNCHANGED <<collection, hybrid_search, engine_vars, ingest_vars, ask_vars,
                   memory_vars, search_call, rerank_call, embed_call>>

\* The texts given to the embeddings: none, empty, blank, padded, plain.
EmbedTexts == {None, <<>>, <<" ", "\n">>, <<" ">> \o TextXY, TextZ}

\* embed_documents(texts) of either class.
EmbedDocuments(class, texts) ==
    /\ embed_call' =
          [made |-> TRUE, class |-> class, op |-> "embed_documents", input |-> texts,
           encoded |-> embed_documents(texts).encoded,
           called |-> embed_documents(texts).called]
    /\ UNCHANGED <<collection, hybrid_search, engine_vars, ingest_vars, ask_vars,
                   memory_vars, search_call, rerank_call, expansion_cache, expand_call>>

\* embed_query(text) of AdvancedRAGEngine's embeddings
AdvEmbedQuery(text) ==
    /\ embed_call' =
          [made |-> TRUE, class |-> "adv", op |-> "embed_query", input |-> <<text>>,
           encoded |-> adv_embed_query(text).encoded,
           called |-> adv_embed_query(text).called]
    /\ UNCHANGED <<collection, hybrid_search, engine_vars, ingest_vars, ask_vars,
                   memory_vars, search_call, rerank_call, expansion_cache, expand_call>>

\* embed_query(text) of rag_engine.CustomEmbeddings
RagEmbedQuery(text) ==
    /\ embed_call' =
          [made |-> TRUE, class |-> "rag", op |-> "embed_query", input |-> <<text>>,
           encoded |-> rag_embed_query(text).encoded,
           called |-> rag_embed_query(text).called]
    /\ UNCHANGED <<collection, hybrid_search, engine_vars, ingest_vars, ask_vars,
                   memory_vars, search_call, rerank_call, expansion_cache, expand_call>>

\* ------------------------------------------------------------------------
\* Specifications
\* ------------------------------------------------------------------------

\* Ingestion: both engine classes ingest into fresh collections.
InitIngest ==
    /\ collection = [t \in Tenants |-> <<>>]
    /\ EnginesBuilt
    /\ use_hybrid_search \in BOOLEAN
    /\ use_reranking = TRUE
    /\ reranker_model = TRUE
    /\ IngestIdle /\ AskIdle /\ MemoryIdle
    /\ search_call = NoCall
    /\ ComponentsIdle

NextIngest ==
    \/ \E i \in Ingestions, t \in Tenants, chunks \in ChunkLists :
          AdvProcessDocuments(i, t, chunks)
    \/ \E i \in Ingestions : AdvLockAcquired(i)
    \/ \E i \in Ingestions, ok \in BOOLEAN : ThreadAddDocuments(i, ok)
    \/ \E i \in Ingestions : AdvBatchFailed(i)
    \/ \E i \in Ingestions : AdvNextBatch(i)
    \/ \E i \in Ingestions, returned \in BOOLEAN : AdvFinish(i, returned)
    \/ \E i \in Ingestions, t \in Tenants, chunks \in ChunkLists :
          RagProcessDocuments(i, t, chunks)
    \/ \E i \in Ingestions, ok \in BOOLEAN : RagAddDocuments(i, ok)
    \/ \E t \in Tenants, ok \in BOOLEAN : RagDeleteCollection(t, ok)

SpecIngest == InitIngest /\ [][NextIngest]_vars

\* The steps of ingestions under way: a woken waiter takes the lock, an
\* add_documents call returns or raises, a coroutine whose batch finished
\* goes on.
IngestionProceeds ==
    \/ \E i \in Ingestions : AdvLockAcquired(i)
    \/ \E i \in Ingestions, ok \in BOOLEAN : ThreadAddDocuments(i, ok)
    \/ \E i \in Ingestions : AdvBatchFailed(i)
    \/ \E i \in Ingestions : AdvNextBatch(i)
    \/ \E i \in Ingestions, returned \in BOOLEAN : AdvFinish(i, returned)
    \/ \E i \in Ingestions, ok \in BOOLEAN : RagAddDocuments(i, ok)

\* The ingestions of one tenant: a document of one chunk by either engine
\* class, a document of two batches by AdvancedRAGEngine.
NextIngestFair ==
    \/ \E i \in Ingestions :
          \E chunks \in {<<TextXY>>, [p \in 1..(batch_size + 1) |-> TextXY]} :
             AdvProcessDocuments(i, AskTenant, chunks)
    \/ \E i \in Ingestions : RagProcessDocuments(i, AskTenant, <<TextXY>>)
    \/ IngestionProceeds

\* Ingestion under fair scheduling: while a coroutine is ready or an
\* add_documents call is running, the event loop and the worker thread do
\* not stop; every add_documents call terminates.
SpecIngestFair == InitIngest /\ [][NextIngestFair]_vars /\ WF_vars(IngestionProceeds)

\* Questions: concurrent ask calls and clear_cache on one engine, built
\* over an empty or a two-unit collection, in every configuration.
InitAsk ==
    /\ collection \in {[t \in Tenants |-> <<>>],
                       [t \in Tenants |-> IF t = AskTenant THEN <<TextXY, TextXXZ>>
                                          ELSE <<>>]}
    /\ EnginesBuilt
    /\ use_hybrid_search \in BOOLEAN
    /\ use_reranking \in BOOLEAN
    /\ reranker_model \in BOOLEAN
    /\ reranker_model => use_reranking
    /\ IngestIdle /\ AskIdle /\ MemoryIdle
    /\ search_call = NoCall
    /\ ComponentsIdle

NextAsk ==
    \/ \E a \in Asks, question \in Questions, session_id \in SessionIds :
          AskCacheHit(a, question, session_id)
    \/ \E a \in Asks, question \in Questions, session_id \in SessionIds :
          AskCacheMiss(a, question, session_id)
    \/ \E a \in Asks, generated \in {Raise} \cup {Return(o) : o \in LlmOutputs},
          response_time_ms \in 0..MaxElapsed :
          AskGenerated(a, generated, response_time_ms)
    \/ ClearCache

SpecAsk == InitAsk /\ [][NextAsk]_vars

\* Failure handling: ask calls of one question made one after the other on
\* one engine, in every configuration, each collaborator failing or not.
NextAskInTurn ==
    \/ \E session_id \in SessionIds : AskCacheHit("a1", <<"x">>, session_id)
    \/ \E session_id \in SessionIds : AskCacheMiss("a1", <<"x">>, session_id)
    \/ \E generated \in {Raise} \cup {Return(o) : o \in LlmOutputs},
          response_time_ms \in 0..MaxElapsed :
          AskGenerated("a1", generated, response_time_ms)

SpecAskInTurn == InitAsk /\ [][NextAskInTurn]_vars

\* Conversation memory: calls on the engine's ConversationMemory, beside
\* concurrent ask calls of one question in one of its sessions.
InitMemory ==
    /\ collection = [t \in Tenants |-> <<>>]
    /\ EnginesBuilt
    /\ use_hybrid_search = TRUE
    /\ use_reranking = TRUE
    /\ reranker_model = TRUE
    /\ IngestIdle /\ AskIdle /\ MemoryIdle
    /\ search_call = NoCall
    /\ ComponentsIdle

NextMemory ==
    \/ \E session_id \in MemorySessionIds, user_msg \in UserMessages,
          bot_msg \in BotMessages : AddTurn(session_id, user_msg, bot_msg)
    \/ \E session_id \in MemorySessionIds : ClearSession(session_id)
    \/ \E a \in Asks : AskCacheHit(a, <<"x">>, <<"y">>)
    \/ \E a \in Asks : AskCacheMiss(a, <<"x">>, <<"y">>)
    \/ \E a \in Asks, generated \in {Raise, Return(<<" ", "n", "o", "\n">>)} :
          AskGenerated(a, generated, 0)

SpecMemory == InitMemory /\ [][NextMemory]_vars

\* Hybrid search: an engine built over a collection of at most one unit,
\* ingestions into it, then one search.
InitSearch ==
    /\ collection \in {[t \in Tenants |-> <<>>]} \cup
                      {[t \in Tenants |-> IF t = AskTenant THEN <<text>> ELSE <<>>] :
                          text \in SearchTexts}
    /\ EnginesBuilt
    /\ use_hybrid_search = TRUE
    /\ use_reranking = TRUE
    /\ reranker_model = TRUE
    /\ IngestIdle /\ AskIdle /\ MemoryIdle
    /\ search_call = NoCall
    /\ ComponentsIdle

\* The chunk lists ingested before the search, by one ingestion.
SearchChunkLists ==
    {<<text>> : text \in SearchTexts} \cup
    {<<TextXY, TextXXZ>>, <<TextXY, TextXY, TextXXZ>>}

NextSearch ==
    \/ \E chunks \in SearchChunkLists :
          ~search_call.made /\ AdvProcessDocuments("i1", AskTenant, chunks)
    \/ \E ok \in BOOLEAN : ~search_call.made /\ ThreadAddDocuments("i1", ok)
    \/ ~search_call.made /\ AdvBatchFailed("i1")
    \/ \E returned \in BOOLEAN : ~search_call.made /\ AdvFinish("i1", returned)
    \/ \E query \in Queries, k \in Ks, alpha \in Alphas :
          \E dense \in DenseOutcomes(collection[AskTenant], k * 2) :
             Search(query, k, alpha, dense)

SpecSearch == InitSearch /\ [][NextSearch]_vars

\* The conversation memory called directly: add_turn, clear_session and
\* get_context on two sessions.
NextContext ==
    \/ \E session_id \in MemorySessionIds, user_msg \in UserMessages,
          bot_msg \in BotMessages : AddTurn(session_id, user_msg, bot_msg)
    \/ \E session_id \in MemorySessionIds : ClearSession(session_id)
    \/ \E session_id \in MemorySessionIds : GetContext(session_id)

SpecContext == InitMemory /\ [][NextContext]_vars

\* The response cache beside everything else an engine does: asks made one
\* after the other, clear_cache, get_stats, an ingestion, and calls on the
\* conversation memory of one session.
\* Bound: the direct calls on the conversation memory made beside the cache.
MaxCacheMemoryCalls == 1

NextCache ==
    \/ \E question \in Questions, session_id \in {None, <<"y">>} :
          AskCacheHit("a1", question, session_id)
    \/ \E question \in Questions, session_id \in {None, <<"y">>} :
          AskCacheMiss("a1", question, session_id)
    \/ \E generated \in {Raise, Return(<<"o", "k">>)} : AskGenerated("a1", generated, 0)
    \/ ClearCache
    \/ ClearRagCache
    \/ \E t \in Tenants, returned \in BOOLEAN, loaded \in BOOLEAN :
          GetAdvancedRagEngine(t, returned, loaded)
    \/ \E counted \in BOOLEAN : GetStats(counted)
    \/ AdvProcessDocuments("i1", AskTenant, << <<" ">> \o TextXY \o <<"\n">> >>)
    \/ \E ok \in BOOLEAN : ThreadAddDocuments("i1", ok)
    \/ AdvBatchFailed("i1")
    \/ \E returned \in BOOLEAN : AdvFinish("i1", returned)
    \/ /\ AskTenant \in _advanced_rag_engines
       /\ memory_calls.n < MaxCacheMemoryCalls
       /\ AddTurn(<<"y">>, <<"x">>, <<"o", "k">>)
    \/ /\ AskTenant \in _advanced_rag_engines
       /\ memory_calls.n < MaxCacheMemoryCalls
       /\ ClearSession(<<"y">>)

SpecCache == InitMemory /\ [][NextCache]_vars

\* The components called directly: a ReRanker whose model loaded or not, a
\* QueryExpansion, the embeddings of both engines.
InitComponents ==
    /\ collection = [t \in Tenants |-> <<>>]
    /\ EnginesBuilt
    /\ use_hybrid_search = TRUE
    /\ use_reranking = TRUE
    /\ reranker_model \in BOOLEAN
    /\ IngestIdle /\ AskIdle /\ MemoryIdle
    /\ search_call = NoCall
    /\ ComponentsIdle

NextRerank ==
    \E documents \in RerankDocuments, top_k \in 0..MaxTopK :
        \E predicted \in PredictOutcomes(Len(documents)) :
            Rerank(documents, top_k, predicted)

SpecRerank == InitComponents /\ [][NextRerank]_vars

NextExpand ==
    \E query \in ExpandQueries, llm \in {Raise} \cup {Return(r) : r \in ExpandResponses} :
        ExpandQuery(query, llm)

SpecExpand == InitComponents /\ [][NextExpand]_vars

NextEmbed ==
    \/ \E class \in {"adv", "rag"}, texts \in SeqsUpTo(EmbedTexts, MaxTexts) :
          EmbedDocuments(class, texts)
    \/ \E text \in EmbedTexts : AdvEmbedQuery(text)
    \/ \E text \in EmbedTexts : RagEmbedQuery(text)

SpecEmbed == InitComponents /\ [][NextEmbed]_vars

\* ------------------------------------------------------------------------
\* Properties
\* ------------------------------------------------------------------------

\* The last ask call returned the fixed apology and a source count of 0.
Apologized ==
    /\ ~last_ask.result.exc
    /\ last_ask.result.value[1] = error_message
    /\ last_ask.result.value[3] = 0

\* C1, as stated: ask never raises, and whenever a collaborator reached
\* after the cache check failed (the dense search, the re-ranker, the
\* generation model), ask returned the apology with a source count of 0.
C1_EveryFailureApologizes ==
    last_ask.op = "ask" =>
        /\ ~last_ask.result.exc
        /\ (last_ask.dense_failed \/ last_ask.rerank_failed \/ last_ask.llm_failed)
              => Apologized

\* C1, amended: ask never raises.  It returns the apology with a source
\* count of 0 when the generation model failed or retrieval raised (the
\* dense search failing with hybrid search off); a dense failure inside the
\* hybrid search and a re-ranker failure are absorbed, and ask then returns
\* the generation model's stripped output.
C1_AskNeverRaises ==
    last_ask.op = "ask" =>
        /\ ~last_ask.result.exc
        /\ (last_ask.llm_failed \/ (last_ask.dense_failed /\ ~use_hybrid_search))
              => Apologized
        /\ (/\ ~last_ask.hit
            /\ ~last_ask.llm_failed
            /\ last_ask.dense_failed => use_hybrid_search)
              => last_ask.result.value[1] \in {Strip(o) : o \in LlmOutputs}

\* An ask whose re-ranker and generation model both failed has returned
\* the apology.
C1_Witness ==
    /\ last_ask.op = "ask"
    /\ last_ask.rerank_failed
    /\ last_ask.llm_failed
    /\ Apologized

\* The add_documents calls of AdvancedRAGEngine ingestions, in the order
\* they finished.
AdvWrites == SelectSeq(write_log, LAMBDA w : w.kind = "adv")

\* C2: batch writes of two AdvancedRAGEngine ingestions never interleave:
\* between two batch writes of one ingestion there is no batch write of
\* another.
C2_BatchesNeverInterleave ==
    \A p \in DOMAIN AdvWrites : \A q \in DOMAIN AdvWrites :
        (p < q /\ AdvWrites[p].ing = AdvWrites[q].ing)
            => \A r \in p..q : AdvWrites[r].ing = AdvWrites[p].ing

\* Two AdvancedRAGEngine ingestions have both written, one of them the two
\* batches of a 101-chunk document.
C2_Witness ==
    /\ Len(AdvWrites) >= 3
    /\ \E p \in DOMAIN AdvWrites : \E q \in DOMAIN AdvWrites :
          /\ p < q
          /\ AdvWrites[p].ing = AdvWrites[q].ing
          /\ AdvWrites[p].units = batch_size
          /\ \E r \in DOMAIN AdvWrites : AdvWrites[r].ing # AdvWrites[p].ing

\* The ingestions inside a vector_store.add_documents call.
InAddDocuments == {i \in Ingestions : ingestions[i].pc \in {"in_thread", "adding"}}

\* C3, as stated: at no time are two add_documents calls in progress at
\* once in the process, whichever engine class and tenant issued them.
C3_OneAddDocumentsAtATime == Cardinality(InAddDocuments) <= 1

\* C4, as stated: as long as the cache is not cleared, the response last
\* stored for a pair (q, s) is what the next ask(q, s) finds under its key,
\* and an ask that was a cache hit was for a pair answered before and
\* returned exactly that pair's response.
C4_CacheRoundTrip ==
    /\ \A pair \in DOMAIN pair_responses :
          /\ CacheKey(pair[1], pair[2]) \in DOMAIN response_cache
          /\ response_cache[CacheKey(pair[1], pair[2])] = pair_responses[pair]
    /\ (last_ask.op = "ask" /\ last_ask.hit) =>
          /\ Pair(last_ask.question, last_ask.session_id) \in DOMAIN pair_responses
          /\ last_ask.result.value =
                pair_responses[Pair(last_ask.question, last_ask.session_id)]

\* C5, as stated: a response returned from the cache by ask(q2, s2) was
\* stored by an ask of the same pair (q2, s2).
C5_KeyedByLiteralPair ==
    (last_ask.op = "ask" /\ last_ask.hit) =>
        last_ask.stored_by = Pair(last_ask.question, last_ask.session_id)

\* The session ids a ConversationMemory call or an ask may name.
AllSessionIds == DOMAIN sessions \cup DOMAIN added_turns \cup MemorySessionIds

\* C6: every session holds at most max_history turns, and they are the
\* max_history most recently added ones, in insertion order, whether added
\* by add_turn calls or by concurrent ask calls of the session.
C6_KeepsMostRecentTurns ==
    \A s \in AllSessionIds :
        /\ Len(History(sessions, s)) <= max_history
        /\ History(sessions, s) = LastN(History(added_turns, s), max_history)

\* A session that was given more than max_history turns, one of them by an
\* ask call, and holds max_history of them.
C6_Witness ==
    \E s \in DOMAIN sessions :
        /\ Len(added_turns[s]) > max_history
        /\ Len(sessions[s]) = max_history
        /\ \E p \in DOMAIN sessions[s] : sessions[s][p].bot = <<"n", "o">>
        /\ \E p \in DOMAIN sessions[s] : sessions[s][p].bot = <<"o", "k">>

\* A call on session memory_calls'.session_id leaves every other session's
\* history as it was.
OtherSessionsUnchanged ==
    \A s \in AllSessionIds \cup DOMAIN sessions' :
        s # memory_calls'.session_id => History(sessions', s) = History(sessions, s)

\* C7: add_turn(s) and clear_session(s) leave the history of every other
\* session unchanged, and a session cleared and not added to since has an
\* empty history and an empty context.
C7_SessionsIsolated ==
    /\ [](\A s \in AllSessionIds :
            s \notin DOMAIN added_turns =>
                /\ History(sessions, s) = <<>>
                /\ get_context(sessions, s) = <<>>)
    /\ [][OtherSessionsUnchanged]_vars

\* Session "y" was just cleared, after calls that added turns, and session
\* "z" still holds its turns.
C7_Witness ==
    /\ memory_calls.op = "clear_session"
    /\ memory_calls.session_id = <<"y">>
    /\ memory_calls.n >= 4
    /\ get_context(sessions, <<"y">>) = <<>>
    /\ Len(History(sessions, <<"z">>)) >= 2

\* The search call made returned a result list.
Searched == search_call.made /\ ~search_call.result.exc

\* Equality and order of two rationals.
REq(x, y) == x[1] * y[2] = y[1] * x[2]

\* The dense list of the search call, and each content's dense score
\* normalised by the list's maximum (0 when the list lacks the content).
DenseList == IF search_call.dense.exc THEN <<>> ELSE search_call.dense.value

DenseScore(text) ==
    DenseList[CHOOSE p \in DOMAIN DenseList : DenseList[p].content = text].score

NormDense(text) ==
    IF (\E p \in DOMAIN DenseList : DenseList[p].content = text)
       /\ RLess(RZero, RMax(Scores(DenseList), ROne))
    THEN RDiv(DenseScore(text), RMax(Scores(DenseList), ROne))
    ELSE RZero

\* The BM25 ranking of the index for the call's query, its first 2k
\* entries, and each content's BM25 score, raw and normalised by the
\* ranking's maximum (0 when the first 2k entries lack the content).
SparseRanking == Bm25Ranking(hybrid_search[AskTenant], search_call.query)

SparseTop == Take(SparseRanking, search_call.k * 2)

Bm25Of(text) ==
    IF \E p \in DOMAIN SparseRanking : SparseRanking[p].text = text
    THEN SparseRanking[CHOOSE p \in DOMAIN SparseRanking :
                          SparseRanking[p].text = text].score
    ELSE RZero

NormBm25(text) ==
    IF (\E p \in DOMAIN SparseTop : SparseTop[p].text = text)
       /\ RLess(RZero, RMax(Scores(SparseRanking), ROne))
    THEN RDiv(Bm25Of(text), RMax(Scores(SparseRanking), ROne))
    ELSE RZero

\* C8, as stated: in the fused result every content appears once, with
\* the score alpha * norm_dense + (1 - alpha) * norm_bm25, which is at
\* most 1.
C8_FusedScores ==
    Searched =>
        \A p \in DOMAIN search_call.result.value :
            LET item == search_call.result.value[p]
            IN  /\ \A q \in DOMAIN search_call.result.value :
                      search_call.result.value[q].doc = item.doc => q = p
                /\ REq(item.score,
                       RAdd(RMul(search_call.alpha, NormDense(item.doc)),
                            RMul(RSub(ROne, search_call.alpha), NormBm25(item.doc))))
                /\ RLeq(item.score, ROne)

\* C9, as stated: with alpha = 1 the units the dense search returned come
\* in the result in the dense ranking's order, nearest first, but for ties.
C9_AlphaOneIsDenseOrder ==
    (Searched /\ search_call.alpha = ROne) =>
        \A p \in DOMAIN search_call.result.value :
            \A q \in DOMAIN search_call.result.value :
                LET first == search_call.result.value[p].doc
                    second == search_call.result.value[q].doc
                IN  (/\ p < q
                     /\ \E r \in DOMAIN DenseList : DenseList[r].content = first
                     /\ \E r \in DOMAIN DenseList : DenseList[r].content = second)
                        => RLeq(DenseScore(first), DenseScore(second))

\* C10, as stated: with alpha = 0 the result comes in the order of the
\* units' BM25 scores, highest first, but for ties.
C10_AlphaZeroIsBm25Order ==
    (Searched /\ search_call.alpha = RZero) =>
        \A p \in DOMAIN search_call.result.value :
            \A q \in DOMAIN search_call.result.value :
                p < q => RLeq(Bm25Of(search_call.result.value[q].doc),
                              Bm25Of(search_call.result.value[p].doc))

\* The normalised scores of the search call made, as the two loops of
\* search compute them: one per dense entry, one per entry of the first
\* 2k of the BM25 ranking.
DenseNorms ==
    [p \in DOMAIN DenseDocs(DenseList) |->
        NormScore(DenseDocs(DenseList)[p].score,
                  RMax(Scores(DenseDocs(DenseList)), ROne))]

SparseNorms ==
    [p \in DOMAIN SparseTop |->
        NormScore(SparseTop[p].score, RMax(Scores(SparseRanking), ROne))]

InUnitInterval(x) == ~Raised(x) /\ RLeq(RZero, x) /\ RLeq(x, ROne)

\* C11: a search call raises no ZeroDivisionError, neither in the BM25
\* length term nor in the normalisation, and every normalised score it
\* computes lies in [0, 1]: with an empty dense set, an empty BM25 set, a
\* maximum of 0, or units of zero tokens in the index.
C11_NormalizedScoresInUnitInterval ==
    search_call.made =>
        /\ ~search_call.result.exc
        /\ \A p \in DOMAIN DenseNorms : InUnitInterval(DenseNorms[p])
        /\ \A p \in DOMAIN SparseNorms : InUnitInterval(SparseNorms[p])

\* A search over an index that holds a unit of zero tokens beside a unit
\* the query matches, the dense search returning every unit at distance 0
\* (a maximum of 0).
C11_Witness ==
    /\ Searched
    /\ \E p \in DOMAIN hybrid_search[AskTenant].bm25_index :
          hybrid_search[AskTenant].bm25_index[p].length = 0
    /\ DenseList # <<>>
    /\ RMax(Scores(DenseList), ROne) = RZero
    /\ SparseNorms # <<>>

\* Every ingestion started has returned successfully, and all of them were
\* AdvancedRAGEngine ingestions: each was followed by its rebuild.
AllRebuilt ==
    \A i \in Ingestions :
        ingestions[i].pc \in {"idle", "done"} /\ ingestions[i].kind # "rag"

\* The number of units of an index whose token set contains a term.
UnitsWith(index, term) ==
    Cardinality({p \in DOMAIN index : term \in Range(index[p].terms)})

\* C12, as stated: after construction followed by ingestions, each with
\* its rebuild, every stored document frequency is the number of indexed
\* units whose token set contains the term, and the indexed units are the
\* contents of the tenant's collection.
C12_RebuildIsFullReplace ==
    (use_hybrid_search /\ AllRebuilt) =>
        \A t \in Tenants :
            /\ \A term \in DOMAIN hybrid_search[t].doc_frequencies :
                  hybrid_search[t].doc_frequencies[term] =
                      UnitsWith(hybrid_search[t].bm25_index, term)
            /\ [p \in DOMAIN hybrid_search[t].bm25_index |->
                    hybrid_search[t].bm25_index[p].text] = collection[t]

\* A step in which _process_documents is called with a chunk list that
\* leaves no valid unit: the coroutine leaves "idle" holding no valid chunk.
NoValidUnitsStep(i) ==
    /\ ingestions[i].pc = "idle"
    /\ ingestions'[i].pc # "idle"
    /\ ingestions'[i].valid_chunks = <<>>

\* C13: an ingestion whose sanitization leaves zero valid units fails, in
\* the step of the call itself, with neither write lock taken or queued
\* for, and with the vector store, the sparse index, the response cache
\* and the session memory as they were.
C13_NoValidUnitsFailsBeforeLock ==
    [][\A i \in Ingestions :
          NoValidUnitsStep(i) =>
              /\ ingestions'[i].pc = "failed"
              /\ UNCHANGED <<adv_lock, rag_lock>>
              /\ UNCHANGED <<collection, hybrid_search, response_cache, sessions>>]_vars

\* An ingestion failed without any add_documents call of its own, on a
\* tenant whose collection and sparse index already held units.
C13_Witness ==
    \E i \in Ingestions :
        /\ ingestions[i].pc = "failed"
        /\ ingestions[i].kind = "adv"
        /\ \A p \in DOMAIN write_log : write_log[p].ing # i
        /\ collection[ingestions[i].tenant] # <<>>
        /\ use_hybrid_search
        /\ hybrid_search[ingestions[i].tenant].total_docs > 0

\* The last call to return was a cache miss that returned an answer, made
\* with a session id on an engine with hybrid search.
AnsweredMiss ==
    /\ last_ask.op = "ask"
    /\ ~last_ask.hit
    /\ ~last_ask.result.exc
    /\ ~Apologized
    /\ Truthy(last_ask.session_id)
    /\ use_hybrid_search

\* C14, as stated: a cache miss goes through RETRIEVE, FUSE, RERANK,
\* PROMPT_ASSEMBLE, GENERATE, CACHE_WRITE, MEMORY_UPDATE, DONE in this
\* order: the response is cached before the turn is added to the session.
C14_StagesInOrder ==
    AnsweredMiss =>
        last_ask.stages = <<"RETRIEVE", "FUSE", "RERANK", "PROMPT_ASSEMBLE", "GENERATE",
                            "CACHE_WRITE", "MEMORY_UPDATE", "DONE">>

\* The last call to return was a cache miss on an engine with hybrid
\* search, in which the vector store's search raised and the generation
\* model did not.
DenseFailedInHybrid ==
    /\ last_ask.op = "ask"
    /\ ~last_ask.hit
    /\ last_ask.dense_failed
    /\ ~last_ask.llm_failed
    /\ use_hybrid_search

\* The texts HybridSearch.search has left when dense_docs is empty: those
\* of the first k*2 = 20 entries of the BM25 ranking of the question.
SparseCandidates(question) ==
    {Bm25Ranking(hybrid_search[AskTenant], question)[p].text :
        p \in DOMAIN Take(Bm25Ranking(hybrid_search[AskTenant], question), 20)}

\* C15: when the vector store's search raises in a query on an engine with
\* hybrid search, ask goes on to generation and returns the model's answer,
\* not the apology, and its sources are the BM25 candidates of the
\* question (the first 5 of them at most).
C15_DenseFailureDegradesToSparse ==
    DenseFailedInHybrid =>
        /\ ~last_ask.result.exc
        /\ ~Apologized
        /\ \E p \in DOMAIN last_ask.stages : last_ask.stages[p] = "GENERATE"
        /\ last_ask.result.value[1] \in {Strip(o) : o \in LlmOutputs}
        /\ last_ask.result.value[3] =
              IF Cardinality(SparseCandidates(last_ask.question)) < 5
              THEN Cardinality(SparseCandidates(last_ask.question))
              ELSE 5

\* A query answered from BM25 candidates alone after the dense search raised.
C15_Witness ==
    /\ DenseFailedInHybrid
    /\ ~Apologized
    /\ last_ask.result.value[3] = 2
    /\ Cardinality(SparseCandidates(last_ask.question)) = 2

\* Each element of result is an element of documents, no element of
\* documents being used twice.
DrawnWithoutDuplication(result, documents) ==
    \E f \in [DOMAIN result -> DOMAIN documents] :
        /\ \A p, q \in DOMAIN result : f[p] = f[q] => p = q
        /\ \A p \in DOMAIN result : documents[f[p]] = result[p]

\* C16: rerank returns a list in every case; when the model is unavailable
\* or the scoring raises, it is the first top_k documents in their order;
\* in every case it has at most top_k elements, drawn from the documents
\* without duplication.
C16_RerankFallsBack ==
    rerank_call.made =>
        /\ rerank_call.failed =>
              rerank_call.result =
                  [p \in 1..(IF rerank_call.top_k < Len(rerank_call.documents)
                             THEN rerank_call.top_k
                             ELSE Len(rerank_call.documents)) |-> rerank_call.documents[p]]
        /\ Len(rerank_call.result) <= rerank_call.top_k
        /\ DrawnWithoutDuplication(rerank_call.result, rerank_call.documents)

\* The scoring raised on a loaded model, with more documents than top_k, two
\* of them of the same content.
C16_Witness ==
    /\ rerank_call.made
    /\ reranker_model
    /\ rerank_call.failed
    /\ rerank_call.top_k = 2
    /\ rerank_call.documents = <<TextZ, TextZ, TextXY>>
    /\ rerank_call.result = <<TextZ, TextZ>>

\* A step that is an expand_query call.
ExpandStep == expand_call'.n = expand_call.n + 1

\* C17: expand_query returns a sequence that begins with the query; when
\* the generation fails it returns [query] and leaves the cache as it was,
\* so that a call for a query with no successful expansion yet invokes the
\* model; after a successful expansion every call with the same query
\* string returns that expansion and does not invoke the model.
C17_ExpandQueryCaches ==
    [][ExpandStep =>
          /\ Len(expand_call'.result) >= 1
          /\ expand_call'.result[1] = expand_call'.query
          /\ expand_call'.llm_failed =>
                /\ expand_call'.result = <<expand_call'.query>>
                /\ expansion_cache' = expansion_cache
          /\ expand_call'.query \notin DOMAIN expand_call.succeeded =>
                expand_call'.invoked
          /\ expand_call'.query \in DOMAIN expand_call.succeeded =>
                /\ ~expand_call'.invoked
                /\ expand_call'.result = expand_call.succeeded[expand_call'.query]]_vars

\* A call answered from the cache, with the query and the three
\* alternatives kept of four, after a failed call and a successful one.
C17_Witness ==
    /\ expand_call.n = 3
    /\ ~expand_call.invoked
    /\ expand_call.query = <<"x", " ">>
    /\ expand_call.result = << <<"x", " ">>, <<"a">>, <<"b">>, <<"c">> >>
    /\ DOMAIN expansion_cache = {<<"x", " ">>}

\* None, empty or whitespace-only.
Degenerate(text) == text = None \/ Strip(text) = <<>>

\* C18, as stated: for every input of embed_documents and embed_query, no
\* text handed to the embedding model is empty or whitespace-only, a
\* degenerate input being replaced by "empty"; embed_documents hands over
\* one text per input, in order.
C18_ModelNeverGivenBlankText ==
    (embed_call.made /\ embed_call.called) =>
        /\ Len(embed_call.encoded) = Len(embed_call.input)
        /\ \A p \in DOMAIN embed_call.encoded :
              /\ ~Degenerate(embed_call.encoded[p])
              /\ Degenerate(embed_call.input[p]) =>
                    embed_call.encoded[p] = <<"e", "m", "p", "t", "y">>

\* C19, as stated: after sanitization the j-th surviving unit (0-based) has
\* chunk_id = j, whatever chunks were dropped.
C19_ChunkIdsDense ==
    \A i \in Ingestions :
        \A p \in DOMAIN ingestions[i].valid_chunks :
            ingestions[i].valid_chunks[p].chunk_id = p - 1

\* C20, as stated: the sanitization of AdvancedRAGEngine._process_documents
\* applied to the units it produced gives the same units: same content,
\* same chunk_id, total_chunks, business_id and source.
C20_SanitizeIdempotent ==
    \A i \in Ingestions :
        ingestions[i].kind = "adv" =>
            Sanitize(Contents(ingestions[i].valid_chunks), ingestions[i].tenant, "source")
                = ingestions[i].valid_chunks

\* A step in which an ask call that missed the cache returns, for this key.
AskReturnsFor(key) ==
    \E a \in Asks :
        /\ asks[a].pc = "generating"
        /\ asks'[a].pc = "idle"
        /\ CacheKey(asks[a].question, asks[a].session_id) = key

\* A step that is a clear_cache call.
ClearCacheStep == calls_made'.clear_cache = calls_made.clear_cache + 1

\* A step in which the engines are dropped: from then on the tenant is
\* served by another engine, with a cache of its own.
EngineReplacedStep == calls_made'.clear_rag_cache = calls_made.clear_rag_cache + 1

\* C21: a cache entry of an engine stays present and unchanged in every
\* step that is neither clear_cache nor the return of an ask for its own
\* key (asks for other keys, ingestion steps, add_turn, clear_session,
\* get_stats), for as long as the engine serves its tenant; a
\* clear_cache leaves no entry, and a get_stats that returns its counts
\* reports the number of entries: 0 right after clear_cache.
C21_CacheEntriesStayUntilCleared ==
    [][/\ \A key \in DOMAIN response_cache :
             (~ClearCacheStep /\ ~EngineReplacedStep /\ ~AskReturnsFor(key)) =>
                 /\ key \in DOMAIN response_cache'
                 /\ response_cache'[key] = response_cache[key]
       /\ ClearCacheStep => response_cache' = <<>>
       /\ (last_ask'.op = "get_stats"
              /\ "cached_responses" \in DOMAIN last_ask'.result.value) =>
             /\ last_ask'.result.value.cached_responses =
                   Cardinality(DOMAIN response_cache)
             /\ last_ask.op = "clear_cache" =>
                   last_ask'.result.value.cached_responses = 0]_vars

\* Two entries in the cache, the first of them older than the second ask,
\* with an ingestion finished and the session cleared, counted by get_stats.
C21_Witness ==
    /\ last_ask.op = "get_stats"
    /\ "cached_responses" \in DOMAIN last_ask.result.value
    /\ last_ask.result.value.cached_responses = 2
    /\ ingestions["i1"].pc = "done"
    /\ memory_calls.op = "clear_session"

\* The contents in the order search first sees them: the dense list in its
\* rank order, then the first 2k entries of the BM25 ranking.
SeenOrder ==
    [p \in DOMAIN DenseList |-> DenseList[p].content]
        \o [p \in DOMAIN SparseTop |-> SparseTop[p].text]

FirstSeen(text) ==
    CHOOSE p \in DOMAIN SeenOrder :
        SeenOrder[p] = text /\ \A q \in 1..(p - 1) : SeenOrder[q] # text

\* C22: search returns at most k results, by combined score descending;
\* results of equal score are in first-seen order: dense candidates in
\* dense-rank order, then sparse-only candidates in BM25 order.
C22_OrderedStableAtMostK ==
    Searched =>
        /\ Len(search_call.result.value) <= search_call.k
        /\ \A p, q \in DOMAIN search_call.result.value :
              p < q =>
                 /\ RLeq(search_call.result.value[q].score,
                         search_call.result.value[p].score)
                 /\ REq(search_call.result.value[p].score,
                        search_call.result.value[q].score) =>
                       FirstSeen(search_call.result.value[p].doc)
                           < FirstSeen(search_call.result.value[q].doc)

\* Two results of equal score out of more candidates than k, both among
\* the dense candidates and in their dense-rank order.
C22_Witness ==
    /\ Searched
    /\ search_call.k = 2
    /\ Len(search_call.result.value) = 2
    /\ Cardinality(Range(SeenOrder)) > 2
    /\ REq(search_call.result.value[1].score, search_call.result.value[2].score)
    /\ \A r \in {1, 2} : \E p \in DOMAIN DenseList :
          DenseList[p].content = search_call.result.value[r].doc
    /\ FirstSeen(search_call.result.value[1].doc)
          < FirstSeen(search_call.result.value[2].doc)

\* The BM25 score of the p-th unit of the engine's index for a query.
UnitScore(p, query) ==
    _bm25_score(hybrid_search[AskTenant], _tokenize(query),
                hybrid_search[AskTenant].bm25_index[p].terms,
                hybrid_search[AskTenant].bm25_index[p].length)

\* C23, as stated: in every index state reached by construction and
\* rebuilds, for every query, a unit's BM25 score is greater than 0 when
\* the unit contains a query term, and 0 when it contains none.
C23_ScorePositiveIffTermShared ==
    \A query \in Queries :
        \A p \in DOMAIN hybrid_search[AskTenant].bm25_index :
            IF Range(_tokenize(query))
                   \cap Range(hybrid_search[AskTenant].bm25_index[p].terms) # {}
            THEN RLess(RZero, UnitScore(p, query))
            ELSE UnitScore(p, query) = RZero

\* The turns of a list, oldest first, each as a "User: " line followed by
\* an "Assistant: " line, the lines separated by newlines.
RECURSIVE RenderedTurns(_)
RenderedTurns(turns) ==
    IF turns = <<>> THEN <<>>
    ELSE (IF Len(turns) = 1 THEN <<>>
          ELSE RenderedTurns(SubSeq(turns, 1, Len(turns) - 1)) \o <<"\n">>)
         \o UserPrefix \o turns[Len(turns)].user \o <<"\n">>
         \o AssistantPrefix \o turns[Len(turns)].bot

\* C24: get_context returns the at most 3 most recent turns of the
\* session, oldest first, each as a "User:" line and an "Assistant:" line;
\* the empty string for a session without history; and it leaves every
\* session, and the set of sessions, as they were.
C24_GetContextRendersLastThree ==
    [][(memory_calls'.n = memory_calls.n + 1 /\ memory_calls'.op = "get_context") =>
          /\ sessions' = sessions
          /\ memory_calls'.result =
                RenderedTurns(LastN(History(added_turns, memory_calls'.session_id), 3))
          /\ History(added_turns, memory_calls'.session_id) = <<>> =>
                memory_calls'.result = <<>>]_vars

\* A context of three turns rendered for a session that was given four,
\* beside a session that does not exist.
C24_Witness ==
    /\ memory_calls.op = "get_context"
    /\ Len(History(added_turns, memory_calls.session_id)) = 4
    /\ memory_calls.result =
          RenderedTurns(SubSeq(added_turns[memory_calls.session_id], 2, 4))
    /\ DOMAIN sessions = {memory_calls.session_id}

\* The add_documents calls of an ingestion, in the order they finished.
WritesOf(i) == SelectSeq(write_log, LAMBDA w : w.ing = i)

\* The batches of a list of writes, one after the other.
RECURSIVE Written(_)
Written(writes) ==
    IF writes = <<>> THEN <<>>
    ELSE Written(SubSeq(writes, 1, Len(writes) - 1)) \o writes[Len(writes)].batch

\* C25: an AdvancedRAGEngine ingestion that returned wrote batches of 1 to
\* batch_size units, each one written, which laid end to end are its valid
\* units in order (every unit once); chunks_count is their number.
C25_BatchesPartitionValidUnits ==
    \A i \in Ingestions :
        (ingestions[i].pc = "done" /\ ingestions[i].kind = "adv") =>
            /\ \A p \in DOMAIN WritesOf(i) :
                  /\ WritesOf(i)[p].ok
                  /\ Len(WritesOf(i)[p].batch) \in 1..batch_size
                  /\ p < Len(WritesOf(i)) => Len(WritesOf(i)[p].batch) = batch_size
            /\ Written(WritesOf(i)) = ingestions[i].valid_chunks
            /\ ingestions[i].chunks_count = Len(Written(WritesOf(i)))

\* An ingestion of batch_size + 1 units returned after two batches.
C25_Witness ==
    \E i \in Ingestions :
        /\ ingestions[i].pc = "done"
        /\ ingestions[i].kind = "adv"
        /\ Len(WritesOf(i)) = 2
        /\ WritesOf(i)[2].units = 1
        /\ ingestions[i].chunks_count = batch_size + 1

\* The ingestions inside the "async with" of each lock.
AdvHolders ==
    {i \in Ingestions : ingestions[i].kind = "adv"
                         /\ ingestions[i].pc \in {"in_thread", "batch_done"}}
RagHolders == {i \in Ingestions : ingestions[i].pc = "adding"}

\* C26: a write lock is held only while an ingestion is inside its "async
\* with" (it is released when the batches are done and when a batch
\* raises), and under fair scheduling, every add_documents call
\* terminating, every ingestion waiting for the lock acquires it.
C26_LockReleasedAndWaitersAcquire ==
    /\ [](adv_lock.locked => AdvHolders # {})
    /\ [](rag_lock.locked => RagHolders # {})
    /\ \A i \in Ingestions :
          (ingestions[i].pc = "waiting") ~> (ingestions[i].pc = "in_thread")

\* An ingestion that waited for the lock has it, after the batch of the
\* ingestion that held it raised.
C26_Witness ==
    \E i, j \in Ingestions :
        /\ ingestions[i].waited
        /\ ingestions[i].pc = "in_thread"
        /\ ingestions[j].pc = "failed"
        /\ ingestions[j].kind = "adv"
        /\ ~ingestions[j].ok

\* Every ingestion that was started has ended, all of them in
\* AdvancedRAGEngine, and one of them reached its batch writes.
AdvIngestionsEnded ==
    /\ \A i \in Ingestions :
          ingestions[i].pc \in {"idle", "done", "failed"} /\ ingestions[i].kind # "rag"
    /\ \E i \in Ingestions :
          ingestions[i].pc \in {"done", "failed"} /\ ingestions[i].valid_chunks # <<>>

\* The texts of the units a sparse index holds, in the index's order.
IndexedTexts(t) ==
    [p \in DOMAIN hybrid_search[t].bm25_index |-> hybrid_search[t].bm25_index[p].text]

\* C27, as stated: once the AdvancedRAGEngine ingestions have ended, by
\* success or by a batch write that raised, the sparse index of every
\* tenant holds exactly the units of the tenant's collection.
C27_IndexMatchesStoreAfterIngestion ==
    (use_hybrid_search /\ AdvIngestionsEnded) =>
        \A t \in Tenants : IndexedTexts(t) = collection[t]

\* A step in which an ask call returns: at once (a cache hit, or an
\* exception before generation), or when it resumes after llm.invoke.
AskReturns ==
    \/ calls_made'.ask = calls_made.ask + 1 /\ asks' = asks
    \/ \E a \in Asks : asks[a].pc = "generating" /\ asks'[a].pc = "idle"

\* The call that returns in the step missed the cache and got its answer.
AskSucceeds ==
    /\ AskReturns
    /\ ~last_ask'.hit
    /\ ~last_ask'.result.exc
    /\ last_ask'.result # AskExcept(last_ask'.result.value[2])

\* C28: a step of ask changes the response cache or a session's history
\* only when the call missed the cache and generation succeeded; an ask
\* answered from the cache and an ask that ends with the apology leave the
\* cache and every session as they were, as does every step of an ask
\* that has not returned.
C28_OnlySuccessfulMissWrites ==
    [][/\ (AskReturns /\ last_ask'.hit) =>
             response_cache' = response_cache /\ sessions' = sessions
       /\ (AskReturns /\ ~last_ask'.hit
              /\ last_ask'.result = AskExcept(last_ask'.result.value[2])) =>
             response_cache' = response_cache /\ sessions' = sessions
       /\ (~ClearCacheStep
              /\ (response_cache' # response_cache \/ sessions' # sessions)) =>
             AskSucceeds]_vars

\* An ask ended with the apology after generation failed, on an engine
\* whose cache holds the response, and whose session the turn, of another
\* ask.
C28_Witness ==
    /\ last_ask.op = "ask"
    /\ last_ask.llm_failed
    /\ last_ask.result = AskExcept(last_ask.result.value[2])
    /\ DOMAIN response_cache # {}
    /\ \E session_id \in DOMAIN sessions : Len(sessions[session_id]) = 1

\* The turns of a session that record a question.
TurnsFor(session_id, question) ==
    {p \in DOMAIN History(added_turns, session_id) :
        History(added_turns, session_id)[p].user = question}

\* C29, as stated: under every interleaving of the asks of one engine, a
\* stored response stays the response of its key until clear_cache (no
\* request in flight for the key replaces it by another response), and
\* until clear_cache a session holds at most one turn for a question asked
\* in it.
C29_StoredResponseNeverReplaced ==
    /\ [][\A key \in DOMAIN response_cache :
             ~ClearCacheStep =>
                 /\ key \in DOMAIN response_cache'
                 /\ response_cache'[key] = response_cache[key]]_vars
    /\ [](calls_made.clear_cache = 0 =>
             \A session_id \in SessionIds, question \in Questions :
                 Cardinality(TurnsFor(session_id, question)) <= 1)

\* The step in which ingestion i leaves its "async with" after its last
\* batch and rebuilds the sparse index of its engine.
RebuildStep(i) ==
    /\ use_hybrid_search
    /\ ingestions[i].kind = "adv"
    /\ ingestions[i].pc = "batch_done"
    /\ ingestions'[i].pc = "done"

\* The ingestions that were started and have not ended.
InFlight == {j \in Ingestions : ingestions[j].pc \notin {"idle", "done", "failed"}}

\* The number of units of ingestion j that are in the store.
UnitsStored(j) == Len(Written(SelectSeq(WritesOf(j), LAMBDA w : w.ok)))

\* C30: the rebuild run by an ingestion that ends while another is in
\* flight reads the collection while no add_documents call is running,
\* and, when the other ingestion is for the same tenant, with all or none
\* of the other's units in it; the index is rebuilt from what was read,
\* or left as it was when the read raised.
C30_RebuildReadsNoTornWrite ==
    [][\A i \in Ingestions :
          RebuildStep(i) =>
             /\ hybrid_search'[ingestions[i].tenant] \in
                   {_build_bm25_index(hybrid_search[ingestions[i].tenant],
                                      CollectionGet(ingestions[i].tenant, returned)) :
                       returned \in BOOLEAN}
             /\ \A j \in InFlight \ {i} :
                   /\ ingestions[j].pc \notin {"in_thread", "adding"}
                   /\ ingestions[j].tenant = ingestions[i].tenant =>
                         UnitsStored(j) \in {0, Len(ingestions[j].valid_chunks)}]_vars

\* An ingestion of two batches has returned and rebuilt the index from
\* its own units only, while a second ingestion for the same tenant still
\* waits for the lock.
C30_Witness ==
    \E i, j \in Ingestions :
        /\ use_hybrid_search
        /\ ingestions[i].pc = "done" /\ ingestions[i].kind = "adv"
        /\ ingestions[i].chunks_count = batch_size + 1
        /\ ingestions[j].pc = "waiting"
        /\ ingestions[j].tenant = ingestions[i].tenant
        /\ IndexedTexts(ingestions[i].tenant) = Contents(ingestions[i].valid_chunks)
        /\ adv_lock.waiters = <<j>>
====
